---- MODULE Spec2Model ----
(***************************************************************************)
(* Model of the RidiBooks metadata source: RidiBooks.identify              *)
(* (src/__init__.py) and the Worker thread (src/worker.py).                *)
(*                                                                         *)
(* Strings are sequences of one-character strings.  Two fixed substrings   *)
(* of the URLs, the site prefix and the detail-page marker, are carried     *)
(* as single elements of such a sequence.  A Python value that may be None  *)
(* is a sequence of length at most one (<<>> is None, <<v>> is v); an       *)
(* xpath result is the sequence of the nodes found.                         *)
(***************************************************************************)
EXTENDS Integers, Sequences, FiniteSets, TLC

VARIABLES
    query,              \* arguments of the top-level identify call
    site,               \* which detail pages the site serves
    prefs,              \* cfg.plugin_prefs[cfg.STORE_NAME]
    identifiers,        \* identifiers argument of the running invocation
    abort,              \* abort.is_set()
    result_queue,       \* the result sink
    pc,                 \* position of identify
    matches,            \* identify's list of candidate URLs
    workers,            \* identify's list of Worker threads
    wi,                 \* index of the for loops over workers
    a_worker_is_alive,  \* flag of the supervision loop
    calls,              \* number of identify invocations entered
    search_fetches,     \* number of search-page fetches issued
    id_log,             \* last message identify logged
    isbn_cache,         \* host cache: ISBN -> identifier
    cover_cache,        \* host cache: identifier -> cover URL
    queue_at_return,    \* length of the sink when identify returned
    search_root,        \* identify's parsed search page, until the match is used
    dc,                 \* download_cover: position, cached_url, the caller's sink
    title_call                  \* parse_title_series: position, title, series_info

vars == <<query, site, prefs, identifiers, abort, result_queue, pc, matches, workers,
          wi, a_worker_is_alive, calls, search_fetches, id_log, isbn_cache,
          cover_cache, queue_at_return, search_root, dc, title_call>>

(***************************************************************************)
(* Bounds of the model.                                                    *)
(***************************************************************************)
MaxResults == 2      \* entries on a search-results page
MAX_EDITIONS == 5    \* RidiBooks.MAX_EDITIONS
MaxTitleLen == 5     \* characters of a display title given to the split loop

(***************************************************************************)
(* Python values.                                                          *)
(***************************************************************************)
NoneVal == <<>>
Some(v) == <<v>>
\* bool(x) of an optional string or list: None and the empty value are false
Truthy(o) == o # <<>> /\ o[1] # <<>>

Digits == {"0", "1", "2", "3", "4", "5", "6", "7", "8", "9"}

RECURSIVE Concat(_)
Concat(ss) == IF ss = <<>> THEN <<>> ELSE Head(ss) \o Concat(Tail(ss))

\* s.replace(' ', '')
RECURSIVE StripSpaces(_)
StripSpaces(s) ==
    IF s = <<>> THEN <<>>
    ELSE IF Head(s) = " " THEN StripSpaces(Tail(s))
         ELSE <<Head(s)>> \o StripSpaces(Tail(s))

\* s.split(): the maximal runs of non-blank characters
RECURSIVE SplitFrom(_, _)
SplitFrom(s, cur) ==
    IF s = <<>> THEN (IF cur = <<>> THEN <<>> ELSE <<cur>>)
    ELSE IF Head(s) = " "
         THEN (IF cur = <<>> THEN <<>> ELSE <<cur>>) \o SplitFrom(Tail(s), <<>>)
         ELSE SplitFrom(Tail(s), Append(cur, Head(s)))
Split(s) == SplitFrom(s, <<>>)

\* d.get(k, None)
Get(d, k) == IF k \in DOMAIN d THEN Some(d[k]) ELSE NoneVal

(***************************************************************************)
(* URLs.                                                                   *)
(***************************************************************************)
BASE_URL == "http://ridibooks.com"
DetailMark == "/v2/Detail?id="
SearchMark == "/search/?q="

\* '%s/v2/Detail?id=%s' % (RidiBooks.BASE_URL, ridibooks_id)
DetailUrl(ridibooks_id) == <<BASE_URL, DetailMark>> \o ridibooks_id

(***************************************************************************)
(* Query construction (RidiBooks.create_query) and the host's tokenisers.  *)
(***************************************************************************)
Joiners == {<<"a">>, <<"a", "n", "d">>, <<"t", "h", "e">>, <<"&">>}

RECURSIVE SelectTokens(_, _)
SelectTokens(tokens, strip_joiners) ==
    IF tokens = <<>> THEN <<>>
    ELSE IF strip_joiners /\ Head(tokens) \in Joiners
         THEN SelectTokens(Tail(tokens), strip_joiners)
         ELSE <<Head(tokens)>> \o SelectTokens(Tail(tokens), strip_joiners)

\* Source.get_title_tokens of the host: the blank-separated words of the
\* title, connectives dropped on request; nothing for an absent title
get_title_tokens(title, strip_joiners) ==
    IF Truthy(title) THEN SelectTokens(Split(title[1]), strip_joiners) ELSE <<>>

\* the words of more than two characters
RECURSIVE LongTokens(_)
LongTokens(tokens) ==
    IF tokens = <<>> THEN <<>>
    ELSE (IF Len(Head(tokens)) > 2 THEN <<Head(tokens)>> ELSE <<>>)
         \o LongTokens(Tail(tokens))

\* Source.get_author_tokens of the host with only_first_author=True: the
\* blank-separated words of the first author, those of one or two
\* characters dropped
get_author_tokens(authors) ==
    IF Truthy(authors) THEN LongTokens(Split(authors[1][1])) ELSE <<>>

\* urllib.quote: letters and digits stand for themselves, any other
\* character is escaped
Unreserved == Digits \cup {"x", "y", "z", "q", "a"}
RECURSIVE quote(_)
quote(t) ==
    IF t = <<>> THEN <<>>
    ELSE (IF Head(t) \in Unreserved THEN <<Head(t)>> ELSE <<"%", Head(t)>>)
         \o quote(Tail(t))

\* '+'.join(tokens)
RECURSIVE JoinPlus(_)
JoinPlus(tokens) ==
    IF tokens = <<>> THEN <<>>
    ELSE IF Len(tokens) = 1 THEN Head(tokens)
         ELSE Head(tokens) \o <<"+">> \o JoinPlus(Tail(tokens))

\* RidiBooks.create_query: the search URL, or None
create_query(title, authors) ==
    LET title_tokens == get_title_tokens(title, FALSE)
        author_tokens == get_author_tokens(authors)
        tokens == [i \in 1..Len(title_tokens) |-> quote(title_tokens[i])]
                  \o [i \in 1..Len(author_tokens) |-> quote(author_tokens[i])]
        url == IF Truthy(title) \/ Truthy(authors)
               THEN <<SearchMark>> \o JoinPlus(tokens)
               ELSE <<>>
    IN  IF url = <<>> THEN NoneVal ELSE Some(<<BASE_URL>> \o url)

(***************************************************************************)
(* difflib.SequenceMatcher(None, a, b).ratio(), as the pair                *)
(* <<numerator, denominator>>.                                             *)
(***************************************************************************)
Max(S) == CHOOSE x \in S : \A y \in S : y <= x
Min(S) == CHOOSE x \in S : \A y \in S : x <= y

RECURSIVE PrefixLen(_, _, _, _)
PrefixLen(a, b, i, j) ==
    IF i > Len(a) \/ j > Len(b) THEN 0
    ELSE IF a[i] # b[j] THEN 0
         ELSE 1 + PrefixLen(a, b, i + 1, j + 1)

\* find_longest_match: the longest common block, the earliest in a and
\* then the earliest in b, as <<i, j, k>>
find_longest_match(a, b) ==
    LET k == Max({0} \cup {PrefixLen(a, b, i, j) : i \in 1..Len(a), j \in 1..Len(b)})
    IN  IF k = 0 THEN <<0, 0, 0>>
        ELSE LET i == Min({x \in 1..Len(a) :
                            \E y \in 1..Len(b) : PrefixLen(a, b, x, y) = k})
                 j == Min({y \in 1..Len(b) : PrefixLen(a, b, i, y) = k})
             IN  <<i, j, k>>

\* get_matching_blocks: the total size of the matching blocks
RECURSIVE MatchSize(_, _)
MatchSize(a, b) ==
    IF a = <<>> \/ b = <<>> THEN 0
    ELSE LET m == find_longest_match(a, b)
         IN  IF m[3] = 0 THEN 0
             ELSE m[3]
                  + MatchSize(SubSeq(a, 1, m[1] - 1), SubSeq(b, 1, m[2] - 1))
                  + MatchSize(SubSeq(a, m[1] + m[3], Len(a)),
                              SubSeq(b, m[2] + m[3], Len(b)))

ratio(a, b) ==
    IF Len(a) + Len(b) = 0 THEN <<1, 1>>
    ELSE <<2 * MatchSize(a, b), Len(a) + Len(b)>>

\* the product of two ratios, and the order of two products
Times(r, s) == <<r[1] * s[1], r[2] * s[2]>>
Greater(r, s) == r[1] * s[2] > s[1] * r[2]

(***************************************************************************)
(* RidiBooks._parse_search_results.  An entry of the search page holds     *)
(* the nodes the three xpath queries find in it.  The result is the new    *)
(* matches list, or the exception raised.                                  *)
(***************************************************************************)
similarity(entry, title_tokens, author_tokens) ==
    Times(ratio(StripSpaces(entry.title_text[1]), Concat(title_tokens)),
          ratio(StripSpaces(entry.author[1]), Concat(author_tokens)))

\* the last position of the maximum instead of the first
IndexOfMax_last(similarities) ==
    Max({i \in 1..Len(similarities) :
            \A j \in 1..Len(similarities) :
                ~Greater(similarities[j], similarities[i])})

\* similarities.index(max(similarities))
IndexOfMax(similarities) ==
    Min({i \in 1..Len(similarities) :
            \A j \in 1..Len(similarities) :
                ~Greater(similarities[j], similarities[i])})

\* a candidate URL for every entry of the page instead of the matched one
parse_search_results_all(orig_title, orig_authors, root, old_matches) ==
    [raised |-> FALSE,
     matches |-> old_matches \o
        [i \in 1..Len(root) |->
            <<BASE_URL>> \o (IF root[i].title_link = <<>> THEN <<>>
                             ELSE root[i].title_link[1])]]

parse_search_results(orig_title, orig_authors, root, old_matches) ==
    LET search_result == root
        title_tokens == get_title_tokens(orig_title, TRUE)
        author_tokens == get_author_tokens(orig_authors)
    IN  IF search_result = <<>>
        THEN [raised |-> FALSE, matches |-> old_matches]
        ELSE IF \E i \in 1..Len(search_result) :
                    search_result[i].title_text = <<>> \/ search_result[i].author = <<>>
        THEN [raised |-> TRUE, matches |-> old_matches]
        ELSE LET similarities == [i \in 1..Len(search_result) |->
                        similarity(search_result[i], title_tokens, author_tokens)]
                 matched_node == search_result[IndexOfMax(similarities)]
             IN  IF matched_node.title_link = <<>>
                 THEN [raised |-> TRUE, matches |-> old_matches]
                 ELSE LET first_result_url == matched_node.title_link[1]
                      IN  IF first_result_url # <<>>
                          THEN [raised |-> FALSE,
                                matches |-> Append(old_matches,
                                                   <<BASE_URL>> \o first_result_url)]
                          ELSE [raised |-> FALSE, matches |-> old_matches]

(***************************************************************************)
(* Python string methods.                                                  *)
(***************************************************************************)
\* s.count(c)
RECURSIVE Count(_, _)
Count(s, c) ==
    IF s = <<>> THEN 0
    ELSE (IF Head(s) = c THEN 1 ELSE 0) + Count(Tail(s), c)

\* s.find(c) + 1: the first position of c, 0 when there is none
Find(s, c) ==
    IF \E i \in 1..Len(s) : s[i] = c
    THEN Min({i \in 1..Len(s) : s[i] = c}) ELSE 0

\* s.rfind(c) + 1
RFind(s, c) ==
    IF \E i \in 1..Len(s) : s[i] = c
    THEN Max({i \in 1..Len(s) : s[i] = c}) ELSE 0

\* s.partition(c) and s.rpartition(c), as <<head, sep, tail>>
partition(s, c) ==
    LET p == Find(s, c)
    IN  IF p = 0 THEN <<s, <<>>, <<>>>>
        ELSE <<SubSeq(s, 1, p - 1), <<c>>, SubSeq(s, p + 1, Len(s))>>

rpartition(s, c) ==
    LET p == RFind(s, c)
    IN  IF p = 0 THEN <<<<>>, <<>>, s>>
        ELSE <<SubSeq(s, 1, p - 1), <<c>>, SubSeq(s, p + 1, Len(s))>>

\* s.strip()
RECURSIVE LStrip(_)
LStrip(s) == IF s # <<>> /\ Head(s) = " " THEN LStrip(Tail(s)) ELSE s
RECURSIVE RStrip(_)
RStrip(s) ==
    IF s # <<>> /\ s[Len(s)] = " " THEN RStrip(SubSeq(s, 1, Len(s) - 1)) ELSE s
Strip(s) == RStrip(LStrip(s))

\* the value of a string of decimal digits
RECURSIVE DigitsValue(_)
DigitsValue(s) ==
    IF s = <<>> THEN 0
    ELSE 10 * DigitsValue(SubSeq(s, 1, Len(s) - 1))
         + (CHOOSE d \in 0..9 : ToString(d) = s[Len(s)])

IsDigits(s) == s # <<>> /\ \A i \in 1..Len(s) : s[i] \in Digits

\* the longest run of digits s starts with
RECURSIVE LeadingDigits(_)
LeadingDigits(s) ==
    IF s # <<>> /\ Head(s) \in Digits
    THEN <<Head(s)>> \o LeadingDigits(Tail(s)) ELSE <<>>

(***************************************************************************)
(* The outcome of a call that may raise.                                   *)
(***************************************************************************)
Raise == [ok |-> FALSE, val |-> <<>>]
Ret(v) == [ok |-> TRUE, val |-> v]

\* float(s) for a plain decimal literal: sign, digits, fraction.  The
\* value is <<mantissa, number of decimals>>, trailing zeros dropped.
RECURSIVE Normalise(_, _)
Normalise(m, d) ==
    IF d > 0 /\ m % 10 = 0 THEN Normalise(m \div 10, d - 1) ELSE <<m, d>>

float(text) ==
    LET s == Strip(text)
        neg == s # <<>> /\ Head(s) = "-"
        body == IF s # <<>> /\ Head(s) \in {"-", "+"} THEN Tail(s) ELSE s
        parts == partition(body, ".")
        int_part == parts[1]
        frac_part == parts[3]
        well_formed ==
            /\ \A i \in 1..Len(int_part) : int_part[i] \in Digits
            /\ \A i \in 1..Len(frac_part) : frac_part[i] \in Digits
            /\ Len(int_part) + Len(frac_part) > 0
        n == Normalise(DigitsValue(int_part \o frac_part), Len(frac_part))
    IN  IF well_formed
        THEN Ret(<<IF neg THEN 0 - n[1] ELSE n[1], n[2]>>)
        ELSE Raise

(***************************************************************************)
(* Worker.parse_ridibooks_id: re.search('/v2/Detail\?id=(\d+)', url)       *)
(***************************************************************************)
parse_ridibooks_id(url) ==
    LET hits == {p \in 1..(Len(url) - 1) :
                    url[p] = DetailMark /\ url[p + 1] \in Digits}
    IN  IF hits = {} THEN Raise
        ELSE Ret(LeadingDigits(SubSeq(url, Min(hits) + 1, Len(url))))

(***************************************************************************)
(* Worker.parse_title_series, as <<title, series, series_index>>.          *)
(***************************************************************************)
\* the body of the loop without the '(' it puts back
rebalance_once_no_paren(title, series_info) ==
    LET title_split == rpartition(title, "(")
    IN  <<Strip(title_split[1]), title_split[3] \o series_info>>

\* lines 235-237: one pass of the re-balancing loop
rebalance_once(title, series_info) ==
    LET title_split == rpartition(title, "(")
    IN  <<Strip(title_split[1]), title_split[3] \o <<"(">> \o series_info>>

\* the re-balancing loop left out
Rebalance_none(title, series_info) == <<title, series_info>>

\* the re-balancing loop: <<title, series_info>> on exit
RECURSIVE Rebalance(_, _)
Rebalance(title, series_info) ==
    IF Count(series_info, ")") # Count(series_info, "(")
    THEN LET title_split == rpartition(title, "(")
         IN  Rebalance(Strip(title_split[1]),
                       title_split[3] \o <<"(">> \o series_info)
    ELSE <<title, series_info>>

parse_title_series(root) ==
    IF root.og_title = <<>> THEN <<NoneVal, NoneVal, NoneVal>>
    ELSE
    LET title_text == Strip(root.og_title[1]) IN
    IF Find(title_text, "(") = 0 THEN <<Some(title_text), NoneVal, NoneVal>>
    ELSE
    LET text_split == rpartition(title_text, "(")
        hash_pos == Find(text_split[3], "#") - 1
        split == IF hash_pos <= 0
                 THEN <<title_text, <<>>>>
                 ELSE Rebalance(text_split[1],
                                SubSeq(text_split[3], 1, Len(text_split[3]) - 1))
        title == split[1]
        series_info == split[2]
        series_partition == rpartition(series_info, "#")
        name0 == Strip(series_partition[1])
        series_name == IF name0 # <<>> /\ name0[Len(name0)] = ","
                       THEN SubSeq(name0, 1, Len(name0) - 1) ELSE name0
        index0 == Strip(series_partition[3])
        \* find('-') is 0, hence false, only for a leading '-'
        series_index == IF Find(index0, "-") - 1 # 0
                        THEN Strip(partition(index0, "-")[1]) ELSE index0
        number == float(series_index)
    IN  IF series_info # <<>> /\ number.ok
        THEN <<Some(Strip(title)), Some(series_name), Some(number.val)>>
        ELSE IF series_info # <<>>
             THEN <<Some(Strip(title_text)), NoneVal, NoneVal>>
             ELSE <<Some(Strip(title)), NoneVal, NoneVal>>

(***************************************************************************)
(* Worker.parse_authors.  The metadata_writer node holds the author names  *)
(* (./span/a/text()) and the text nodes next to them (./span/text()).      *)
(***************************************************************************)
RoleAuthor == "ROLE-AUTHOR"            \* the role label after the authors
RoleTranslator == "ROLE-TRANSLATOR"    \* the role label after the translators
TranslatorMark == "(TRANSLATOR)"       \* the suffix appended to a translator

\* re.sub(',', '', x)
RECURSIVE RemoveCommas(_)
RemoveCommas(s) ==
    IF s = <<>> THEN <<>>
    ELSE IF Head(s) = "," THEN RemoveCommas(Tail(s))
         ELSE <<Head(s)>> \o RemoveCommas(Tail(s))

\* an index that is 0 when x is not in the list
Index0_or_zero(list, x) ==
    IF \E i \in 1..Len(list) : list[i] = x
    THEN Min({i \in 1..Len(list) : list[i] = x}) - 1 ELSE 0

\* list.index(x), counted from 0; -1 when x is not in the list
Index0(list, x) ==
    IF \E i \in 1..Len(list) : list[i] = x
    THEN Min({i \in 1..Len(list) : list[i] = x}) - 1 ELSE 0 - 1

\* authors[0:n]
Slice0(authors, n) == SubSeq(authors, 1, IF n < Len(authors) THEN n ELSE Len(authors))

\* the marking begun at the position of the author label instead of after it
parse_authors_mark_from_k(root, get_all_authors) ==
    IF root.writer = <<>> THEN Raise
    ELSE
    LET base_node == root.writer[1] IN
    IF base_node.names = <<>> /\ base_node.roles = <<>> THEN Ret(NoneVal)
    ELSE
    LET authors == base_node.names
        author_roles == [i \in 1..Len(base_node.roles) |->
                            RemoveCommas(Strip(base_node.roles[i]))]
        author_index_max == Index0(author_roles, <<RoleAuthor>>)
        translator_index_max == Index0(author_roles, <<RoleTranslator>>)
        marked == [i \in 1..Len(authors) |->
                    IF author_index_max <= i - 1 /\ i - 1 <= translator_index_max
                    THEN authors[i] \o <<TranslatorMark>> ELSE authors[i]]
    IN  IF author_index_max < 0 \/ translator_index_max < 0 THEN Raise
        ELSE IF author_index_max + 1 <= translator_index_max
                /\ translator_index_max >= Len(authors)
        THEN Raise
        ELSE IF get_all_authors THEN Ret(Some(marked))
        ELSE Ret(Some(Slice0(marked, author_index_max)))

\* lines 256-275
parse_authors(root, get_all_authors) ==
    IF root.writer = <<>> THEN Raise
    ELSE
    LET base_node == root.writer[1] IN
    IF base_node.names = <<>> /\ base_node.roles = <<>> THEN Ret(NoneVal)
    ELSE
    LET authors == base_node.names
        author_roles == [i \in 1..Len(base_node.roles) |->
                            RemoveCommas(Strip(base_node.roles[i]))]
        author_index_max == Index0(author_roles, <<RoleAuthor>>)
        translator_index_max == Index0(author_roles, <<RoleTranslator>>)
        marked == [i \in 1..Len(authors) |->
                    IF author_index_max + 1 <= i - 1 /\ i - 1 <= translator_index_max
                    THEN authors[i] \o <<TranslatorMark>> ELSE authors[i]]
    IN  IF author_index_max < 0 \/ translator_index_max < 0 THEN Raise
        ELSE IF author_index_max + 1 <= translator_index_max
                /\ translator_index_max >= Len(authors)
        THEN Raise
        ELSE IF get_all_authors THEN Ret(Some(marked))
        ELSE Ret(Some(Slice0(marked, author_index_max)))

(***************************************************************************)
(* Worker.parse_isbn                                                       *)
(***************************************************************************)
IsbnMinLen == 10
IsbnChars == Digits \cup {"A", "B", "X"}

RECURSIVE LeadingIsbnChars(_)
LeadingIsbnChars(s) ==
    IF s # <<>> /\ Head(s) \in IsbnChars
    THEN <<Head(s)>> \o LeadingIsbnChars(Tail(s)) ELSE <<>>

\* re.search('([0-9A-Z]{10,})', text): the leftmost match, or None
SearchIsbn(text) ==
    LET hits == {p \in 1..Len(text) :
                    Len(LeadingIsbnChars(SubSeq(text, p, Len(text)))) >= IsbnMinLen}
    IN  IF hits = {} THEN NoneVal
        ELSE Some(LeadingIsbnChars(SubSeq(text, Min(hits), Len(text))))

\* the value of isbn_text after the loop over the first n nodes
RECURSIVE IsbnAfter(_, _)
IsbnAfter(isbn_nodes, n) ==
    IF n = 0 THEN NoneVal
    ELSE LET match == SearchIsbn(Strip(isbn_nodes[n]))
         IN  IF match # NoneVal THEN match ELSE IsbnAfter(isbn_nodes, n - 1)

parse_isbn(root) ==
    LET isbn_text == IsbnAfter(root.isbn, Len(root.isbn))
    IN  IF isbn_text = NoneVal THEN Raise ELSE Ret(Some(Strip(isbn_text[1])))

(***************************************************************************)
(* Worker.parse_rating                                                     *)
(***************************************************************************)
parse_rating(root) ==
    IF root.rating = <<>> THEN Ret(NoneVal)
    ELSE LET rating_value == float(root.rating[1])
         IN  IF rating_value.ok THEN Ret(Some(rating_value.val)) ELSE Raise

(***************************************************************************)
(* Worker.parse_publisher_date and Worker._convert_date_text               *)
(***************************************************************************)
\* int(s) for a string of digits with an optional sign
int(text) ==
    LET s == Strip(text)
        neg == s # <<>> /\ Head(s) = "-"
        body == IF s # <<>> /\ Head(s) \in {"-", "+"} THEN Tail(s) ELSE s
    IN  IF IsDigits(body)
        THEN Ret(IF neg THEN 0 - DigitsValue(body) ELSE DigitsValue(body))
        ELSE Raise

IsLeap(year) == (year % 4 = 0 /\ year % 100 # 0) \/ year % 400 = 0

DaysInMonth(year, month) ==
    IF month = 2 THEN (IF IsLeap(year) THEN 29 ELSE 28)
    ELSE IF month \in {4, 6, 9, 11} THEN 30 ELSE 31

\* datetime.datetime(year, month, day, tzinfo=utc_tz)
datetime(year, month, day) ==
    IF /\ 1 <= year /\ year <= 9999
       /\ 1 <= month /\ month <= 12
       /\ 1 <= day /\ day <= DaysInMonth(year, month)
    THEN Ret(<<year, month, day>>) ELSE Raise

convert_date_text(date_text) ==
    LET year == int(SubSeq(date_text, 1, Min({4, Len(date_text)})))
        month == int(SubSeq(date_text, 5, Min({6, Len(date_text)})))
        day == int(SubSeq(date_text, 7, Len(date_text)))
    IN  IF year.ok /\ month.ok /\ day.ok
        THEN datetime(year.val, month.val, day.val) ELSE Raise

parse_publisher_date(root) ==
    IF root.info = <<>> THEN Raise
    ELSE
    LET base_node == root.info[1] IN
    IF base_node.publisher = <<>> \/ base_node.datePublished = <<>> THEN Raise
    ELSE
    LET pubdate == convert_date_text(base_node.datePublished[1])
    IN  IF pubdate.ok THEN Ret(<<base_node.publisher[1], pubdate.val>>) ELSE Raise

(***************************************************************************)
(* Worker.parse_comments.  A description node holds its text and whether   *)
(* it has a view_more button; the sanitizer is the host's.                 *)
(***************************************************************************)
\* while comments.find('  ') >= 0: comments = comments.replace('  ', ' ')
RECURSIVE CollapseSpaces(_)
CollapseSpaces(s) ==
    IF Len(s) < 2 THEN s
    ELSE IF s[1] = " " /\ s[2] = " " THEN CollapseSpaces(Tail(s))
         ELSE <<Head(s)>> \o CollapseSpaces(Tail(s))

ViewMoreButton == "<button class=view_more>"
Sanitized == "<div>"

\* tostring(desc, method='html', encoding=unicode)
tostring(desc) ==
    IF desc.view_more THEN desc.text \o <<ViewMoreButton>> ELSE desc.text

\* desc.remove(less_link[0])
remove_view_more(desc) == [desc EXCEPT !.view_more = FALSE]

\* calibre.library.comments.sanitize_comments_html of the host
sanitize_comments_html(comments) == <<Sanitized>> \o comments

parse_comments(root) ==
    LET description_node == root.introduce_book IN
    IF description_node = <<>> THEN Ret(NoneVal)
    ELSE LET desc == IF Len(description_node) = 1
                     THEN description_node[1] ELSE description_node[2]
             comments == CollapseSpaces(Strip(tostring(remove_view_more(desc))))
         IN  IF root.sanitizer_fails THEN Raise
             ELSE Ret(Some(sanitize_comments_html(comments)))

\* the document after parse_comments has removed the button from it
AfterParseComments(root) ==
    LET description_node == root.introduce_book IN
    IF description_node = <<>> THEN root
    ELSE LET n == IF Len(description_node) = 1 THEN 1 ELSE 2
         IN  [root EXCEPT !.introduce_book[n] = remove_view_more(description_node[n])]

(***************************************************************************)
(* Worker.parse_cover.  root.probe is what the host's browser answers to   *)
(* the request for the image: an exception, or the Content-Length header.  *)
(***************************************************************************)
CoverMinLength == 1000

\* parse_cover accepting a resource of exactly the threshold length
parse_cover_at_least(root) ==
    LET imgcol_node == root.og_image IN
    IF imgcol_node = <<>> THEN Ret(NoneVal)
    ELSE LET info == root.probe
             length == IF info.ok /\ info.val # NoneVal THEN int(info.val[1]) ELSE Raise
         IN  IF ~length.ok THEN Raise
             ELSE IF length.val >= CoverMinLength THEN Ret(Some(imgcol_node[1]))
             ELSE Ret(NoneVal)

parse_cover(root) ==
    LET imgcol_node == root.og_image IN
    IF imgcol_node = <<>> THEN Ret(NoneVal)
    ELSE LET img_url == imgcol_node[1]
             info == root.probe
             length == IF info.ok /\ info.val # NoneVal THEN int(info.val[1]) ELSE Raise
         IN  IF ~length.ok THEN Raise
             ELSE IF length.val > CoverMinLength THEN Ret(Some(img_url))
             ELSE Ret(NoneVal)

(***************************************************************************)
(* Worker.parse_tags and Worker._convert_genres_to_calibre_tags            *)
(***************************************************************************)
LowerChar(c) ==
    CASE c = "G" -> "g" [] c = "H" -> "h" [] c = "A" -> "a" [] c = "B" -> "b"
      [] c = "X" -> "x" [] OTHER -> c

\* s.lower()
Lower(s) == [i \in 1..Len(s) |-> LowerChar(s[i])]

\* ' > '.join(genre_tags_list)
RECURSIVE JoinGenre(_)
JoinGenre(parts) ==
    IF parts = <<>> THEN <<>>
    ELSE IF Len(parts) = 1 THEN Head(parts)
         ELSE Head(parts) \o <<" > ">> \o JoinGenre(Tail(parts))

\* append the tags not yet in tags_to_add
RECURSIVE AddNew(_, _)
AddNew(tags_to_add, tags) ==
    IF tags = <<>> THEN tags_to_add
    ELSE AddNew(IF \E i \in 1..Len(tags_to_add) : tags_to_add[i] = Head(tags)
                THEN tags_to_add ELSE Append(tags_to_add, Head(tags)),
                Tail(tags))

\* calibre_tag_map.get(genre_tag.lower(), None)
LookupGenre(calibre_tag_lookup, genre_tag) ==
    LET keys == {k \in DOMAIN calibre_tag_lookup : Lower(k) = Lower(genre_tag)}
    IN  IF keys = {} THEN <<>> ELSE calibre_tag_lookup[CHOOSE k \in keys : TRUE]

RECURSIVE ConvertFrom(_, _, _)
ConvertFrom(calibre_tag_lookup, genre_tags, tags_to_add) ==
    IF genre_tags = <<>> THEN tags_to_add
    ELSE ConvertFrom(calibre_tag_lookup, Tail(genre_tags),
                     AddNew(tags_to_add, LookupGenre(calibre_tag_lookup, Head(genre_tags))))

convert_genres_to_calibre_tags(plugin_prefs, genre_tags) ==
    IF plugin_prefs.genre_mappings = <<>> THEN Raise
    ELSE Ret(ConvertFrom(plugin_prefs.genre_mappings[1], genre_tags, <<>>))

\* the joined, stripped sub-genres of every genre node that has some
RECURSIVE GenreTags(_)
GenreTags(genres_node) ==
    IF genres_node = <<>> THEN <<>>
    ELSE LET genre_tags_list == [i \in 1..Len(Head(genres_node)) |->
                                    Strip(Head(genres_node)[i])]
         IN  (IF genre_tags_list # <<>> THEN <<JoinGenre(genre_tags_list)>> ELSE <<>>)
             \o GenreTags(Tail(genres_node))

parse_tags(root, plugin_prefs) ==
    LET genres_node == root.genres IN
    IF genres_node = <<>> THEN Ret(NoneVal)
    ELSE LET calibre_tags == convert_genres_to_calibre_tags(plugin_prefs,
                                                            GenreTags(genres_node))
         IN  IF ~calibre_tags.ok THEN Raise
             ELSE IF Len(calibre_tags.val) > 0 THEN Ret(Some(calibre_tags.val))
             ELSE Ret(NoneVal)

(***************************************************************************)
(* Worker._parse_language                                                  *)
(***************************************************************************)
parse_language(root) == Ret(Some("Korean"))

(***************************************************************************)
(* The Worker thread (Worker.__init__) and the Metadata record it builds.  *)
(***************************************************************************)
NewWorker(url, relevance) ==
    [url |-> url, relevance |-> relevance, pc |-> "created",
     root |-> NoneVal, mi |-> NoneVal,
     cover_url |-> NoneVal, ridibooks_id |-> NoneVal, isbn |-> NoneVal,
     log |-> {}, cached |-> {}, hook_raised |-> FALSE, puts |-> 0]

\* Metadata(title, authors) of the host: every other field at its default
Metadata(title, authors) ==
    [title |-> title, authors |-> authors,
     series |-> NoneVal, series_index |-> NoneVal,
     ridibooks |-> NoneVal, isbn |-> NoneVal, rating |-> NoneVal,
     publisher |-> NoneVal, pubdate |-> NoneVal, comments |-> NoneVal,
     has_cover |-> FALSE, tags |-> <<>>, language |-> NoneVal,
     source_relevance |-> NoneVal, cleaned |-> FALSE]

SetField(w, f, v) == [w EXCEPT !.mi = Some([w.mi[1] EXCEPT ![f] = v])]
Logged(w, msg) == [w EXCEPT !.log = @ \cup {msg}]
\* an exception leaves get_details
Escaped(w) == [w EXCEPT !.pc = "exc"]

(***************************************************************************)
(* Worker.parse_details, statement by statement.  Each step takes the      *)
(* Worker and gives it back changed.                                       *)
(***************************************************************************)
\* lines 113-129: the three mandatory fields, None or [] when extraction raises
mandatory_fields(w, plugin_prefs) ==
    LET id == parse_ridibooks_id(w.url)
        ts == parse_title_series(w.root)
        au == parse_authors(w.root, plugin_prefs.get_all_authors)
    IN  [ridibooks_id |-> IF id.ok THEN Some(id.val) ELSE NoneVal,
         title |-> ts[1], series |-> ts[2], series_index |-> ts[3],
         authors |-> IF au.ok THEN au.val ELSE Some(<<>>),
         failed |-> (IF id.ok THEN {} ELSE {"Error parsing ridibooks id"})
                    \cup (IF au.ok THEN {} ELSE {"Error parsing authors"})]

\* the check of line 131 without the identifier
mandatory_missing_no_id(m) == ~Truthy(m.title) \/ ~Truthy(m.authors)

\* line 131
mandatory_missing(m) ==
    ~Truthy(m.title) \/ ~Truthy(m.authors) \/ ~Truthy(m.ridibooks_id)

\* lines 137-142
new_record(w, m) ==
    LET mi0 == Metadata(m.title[1], m.authors[1])
        mi1 == IF Truthy(m.series)
               THEN [mi0 EXCEPT !.series = m.series, !.series_index = m.series_index]
               ELSE mi0
    IN  [w EXCEPT !.mi = Some([mi1 EXCEPT !.ridibooks = m.ridibooks_id]),
                  !.ridibooks_id = m.ridibooks_id]

\* step_isbn without its try/except: the exception leaves parse_details
step_isbn_unguarded(w) ==
    LET isbn == parse_isbn(w.root)
    IN  IF ~isbn.ok THEN Escaped(w)
        ELSE IF Truthy(isbn.val)
             THEN [SetField(w, "isbn", isbn.val) EXCEPT !.isbn = isbn.val]
             ELSE w

\* lines 144-149
step_isbn(w) ==
    LET isbn == parse_isbn(w.root)
    IN  IF ~isbn.ok THEN Logged(w, "Error parsing ISBN")
        ELSE IF Truthy(isbn.val)
             THEN [SetField(w, "isbn", isbn.val) EXCEPT !.isbn = isbn.val]
             ELSE w

\* lines 151-154
step_rating(w) ==
    LET rating == parse_rating(w.root)
    IN  IF ~rating.ok THEN Logged(w, "Error parsing ratings")
        ELSE SetField(w, "rating", rating.val)

\* step_publisher_date setting the publisher before the date is converted
step_publisher_first(w) ==
    LET pd == parse_publisher_date(w.root)
    IN  IF ~pd.ok
        THEN IF w.root.info # <<>> /\ w.root.info[1].publisher # <<>>
             THEN SetField(Logged(w, "Error parsing publisher/date"),
                           "publisher", Some(w.root.info[1].publisher[1]))
             ELSE Logged(w, "Error parsing publisher/date")
        ELSE SetField(SetField(w, "publisher", Some(pd.val[1])),
                      "pubdate", Some(pd.val[2]))

\* lines 156-159
step_publisher_date(w) ==
    LET pd == parse_publisher_date(w.root)
    IN  IF ~pd.ok THEN Logged(w, "Error parsing publisher/date")
        ELSE SetField(SetField(w, "publisher", Some(pd.val[1])),
                      "pubdate", Some(pd.val[2]))

\* lines 161-164
step_comments(w) ==
    LET comments == parse_comments(w.root)
        w1 == [w EXCEPT !.root = AfterParseComments(w.root)]
    IN  IF ~comments.ok THEN Logged(w1, "Error parsing comments")
        ELSE SetField(w1, "comments", comments.val)

\* lines 166-170
step_cover(w) ==
    LET cover == parse_cover(w.root)
        w1 == IF ~cover.ok THEN Logged(w, "Error parsing cover")
              ELSE [w EXCEPT !.cover_url = cover.val]
    IN  SetField(w1, "has_cover", Truthy(w1.cover_url))

\* lines 172-179
step_tags(w, plugin_prefs) ==
    LET tags == parse_tags(w.root, plugin_prefs)
    IN  IF ~tags.ok THEN Logged(w, "Error parsing tags")
        ELSE IF tags.val # NoneVal THEN SetField(w, "tags", tags.val[1])
        ELSE SetField(w, "tags", <<>>)

\* lines 181-186
step_language(w) ==
    LET lang == parse_language(w.root)
    IN  IF ~lang.ok THEN Logged(w, "Error parsing language")
        ELSE IF lang.val # NoneVal THEN SetField(w, "language", lang.val)
        ELSE w

\* step_relevance leaving the rank off the record
step_relevance_unset(w) == w

\* line 188
step_relevance(w) == SetField(w, "source_relevance", Some(w.relevance))

\* lines 144-188: the statements that fill the optional fields, in order
Statements ==
    <<"isbn", "rating", "publisher_date", "comments", "cover", "tags",
      "language", "relevance">>

statement(name, w, plugin_prefs) ==
    CASE name = "isbn" -> step_isbn(w)
      [] name = "rating" -> step_rating(w)
      [] name = "publisher_date" -> step_publisher_date(w)
      [] name = "comments" -> step_comments(w)
      [] name = "cover" -> step_cover(w)
      [] name = "tags" -> step_tags(w, plugin_prefs)
      [] name = "language" -> step_language(w)
      [] name = "relevance" -> step_relevance(w)

\* the statements from the k-th on; none runs once an exception has left
\* the method
RECURSIVE run_from(_, _, _)
run_from(k, w, plugin_prefs) ==
    IF k > Len(Statements) \/ w.pc = "exc" THEN w
    ELSE run_from(k + 1, statement(Statements[k], w, plugin_prefs), plugin_prefs)

\* lines 137-188: the record and its optional fields
build_record(w, m, plugin_prefs) == run_from(1, new_record(w, m), plugin_prefs)

\* the Worker going to the put at once, the cache writes and the cleanup
\* left for later
to_put_first(w) == IF w.pc = "exc" THEN w ELSE [w EXCEPT !.pc = "put"]

\* the Worker goes on to the cache writes
to_cache(w) == IF w.pc = "exc" THEN w ELSE [w EXCEPT !.pc = "cache"]

\* lines 131-135: no record when a mandatory field is missing
reject(w, failed) ==
    [w EXCEPT !.log = @ \cup failed \cup {"Could not find title/authors/ridibooks id"},
              !.pc = "done"]

\* lines 112-188: up to the calls of the host
details_of(w, m, plugin_prefs) ==
    IF mandatory_missing(m)
    THEN reject(w, m.failed)
    ELSE to_cache(build_record([w EXCEPT !.log = @ \cup m.failed], m, plugin_prefs))

parse_details(w, plugin_prefs) ==
    details_of(w, mandatory_fields(w, plugin_prefs), plugin_prefs)

(***************************************************************************)
(* The inputs: the queries of the host, the preferences of the user and    *)
(* what the site answers.                                                  *)
(***************************************************************************)
EmptyDict == [k \in {} |-> <<>>]
AnIsbn == <<"9", "7", "8", "8", "9", "0", "1", "2", "3", "X">>

Titles == {NoneVal, Some(<<" ">>), Some(<<"x", "y">>)}
AuthorLists == {NoneVal, Some(<< <<"q">> >>), Some(<< <<"z", "z", "z">> >>)}
IdentifierDicts ==
    {EmptyDict,
     [ridibooks |-> <<"1">>],
     [ridibooks |-> <<"1", "a">>],
     [ridibooks |-> <<"a">>],
     [ridibooks |-> <<>>],
     [isbn |-> AnIsbn]}

Queries == [title : Titles, authors : AuthorLists, identifiers : IdentifierDicts]

GenreMappings == [k \in {<<"g", " > ", "h">>} |-> << <<"f">>, <<"f">>, <<"s">> >>]
Prefs ==
    {[get_all_authors |-> TRUE, genre_mappings |-> Some(GenreMappings)],
     [get_all_authors |-> FALSE, genre_mappings |-> Some(GenreMappings)],
     [get_all_authors |-> TRUE, genre_mappings |-> NoneVal]}

\* the entries of a search-results page
Entries ==
    {[title_text |-> << <<"x", " ", "y">> >>, author |-> << <<"z", "z", "z">> >>,
      title_link |-> << <<DetailMark, "2">> >>],
     [title_text |-> << <<"x">> >>, author |-> << <<"q">> >>,
      title_link |-> << <<DetailMark, "3">> >>],
     [title_text |-> <<>>, author |-> << <<"z", "z", "z">> >>,
      title_link |-> << <<DetailMark, "4">> >>],
     [title_text |-> << <<"x", "y">> >>, author |-> <<>>,
      title_link |-> << <<DetailMark, "4">> >>],
     [title_text |-> << <<"x", "y">> >>, author |-> << <<"z", "z", "z">> >>,
      title_link |-> <<>>],
     [title_text |-> << <<"x", "y">> >>, author |-> << <<"z", "z", "z">> >>,
      title_link |-> << <<>> >>]}

SeqsUpTo(S, n) == UNION {[1..k -> S] : k \in 0..n}

\* what the search request may end in
SearchResponses ==
    {[kind |-> k, root |-> <<>>] : k \in {"error", "read_error", "empty", "unparseable"}}
    \cup {[kind |-> "page", root |-> r] : r \in SeqsUpTo(Entries, MaxResults)}

\* a detail page on which every extraction succeeds
GoodPage ==
    [errmsg |-> FALSE,
     og_title |-> << <<"x", " ", "(", "y", " ", "#", "3", ")">> >>,
     writer |-> << [names |-> << <<"p">>, <<"q">>, <<"t">> >>,
                    roles |-> << <<",">>, <<" ", RoleAuthor>>, <<RoleTranslator>> >>] >>,
     isbn |-> << AnIsbn >>,
     rating |-> << <<"4", ".", "5">> >>,
     info |-> << [publisher |-> << <<"P">> >>,
                  datePublished |-> << <<"2", "0", "2", "0", "0", "2", "2", "9">> >>] >>,
     introduce_book |-> << [text |-> <<"d", " ", " ", "e">>, view_more |-> TRUE] >>,
     sanitizer_fails |-> FALSE,
     og_image |-> << <<"i">> >>,
     probe |-> Ret(Some(<<"1", "0", "0", "1">>)),
     genres |-> << << <<"G">>, <<"h">> >> >>]

\* a publisher with a day that is not in the calendar (30 February)
BadDateInfo ==
    << [publisher |-> << <<"P">> >>,
        datePublished |-> << <<"2", "0", "2", "0", "0", "2", "3", "0">> >>] >>

\* the pages on which any set of the optional extractions fails
OptionalVariants ==
    {[GoodPage EXCEPT !.isbn = i, !.rating = r, !.info = f,
                      !.sanitizer_fails = s, !.probe = c] :
        i \in {GoodPage.isbn, <<>>},
        r \in {GoodPage.rating, << <<"x">> >>},
        f \in {GoodPage.info, <<>>, BadDateInfo},
        s \in BOOLEAN,
        c \in {GoodPage.probe, Raise}}

\* pages on which an optional field is absent or rejected without an error
AbsentVariants ==
    {[GoodPage EXCEPT !.probe = Ret(Some(<<"1", "0", "0", "0">>))],
     [GoodPage EXCEPT !.probe = Ret(Some(<<"9", "9", "9">>))],
     [GoodPage EXCEPT !.probe = Ret(NoneVal)],
     [GoodPage EXCEPT !.og_image = <<>>, !.rating = <<>>,
                      !.introduce_book = <<>>, !.genres = <<>>],
     [GoodPage EXCEPT !.og_title = << <<"x">> >>,
                      !.isbn = << AnIsbn, <<"1">>, Tail(AnIsbn) \o <<"A">> >>]}

\* pages that lack a mandatory field or carry an error element
MandatoryVariants ==
    {[GoodPage EXCEPT !.errmsg = TRUE],
     [GoodPage EXCEPT !.og_title = <<>>],
     [GoodPage EXCEPT !.og_title = << <<" ">> >>],
     [GoodPage EXCEPT !.writer = <<>>],
     [GoodPage EXCEPT !.writer = << [names |-> <<>>, roles |-> <<>>] >>],
     [GoodPage EXCEPT !.writer = << [names |-> << <<"p">> >>,
                                     roles |-> << <<RoleAuthor>> >>] >>],
     [GoodPage EXCEPT !.writer = << [names |-> << <<"p">>, <<"t">> >>,
                                     roles |-> << <<RoleAuthor>>, <<RoleTranslator>> >>] >>],
     [GoodPage EXCEPT !.og_title = <<>>, !.isbn = <<>>, !.probe = Raise]}

\* display titles: the forms parse_title_series lists, a series index that
\* is a range, a fraction, negative or no number, a title without its
\* closing parenthesis
TitleVariants ==
    {GoodPage,
     [GoodPage EXCEPT !.og_title = << <<"x", " ", "(", "y", " ", "#", "1", "-", "5", ")">> >>],
     [GoodPage EXCEPT !.og_title = << <<"x", " ", "(", "o", ")">> >>],
     [GoodPage EXCEPT !.og_title = << <<"x", " ", "(", "o", ")", " ", "(", "y", " ", "#", "1", ")">> >>],
     [GoodPage EXCEPT !.og_title = << <<"x", " ", "(", "y", " ", "#", "z", ")">> >>],
     [GoodPage EXCEPT !.og_title = << <<" ", "x", " ">> >>],
     [GoodPage EXCEPT !.og_title = << <<"x", " ", "(", "#", "1", "-", "3", ")">> >>],
     [GoodPage EXCEPT !.og_title = << <<"x", " ", "(", "y", ",", " ", "#", "3", ")">> >>],
     [GoodPage EXCEPT !.og_title = << <<"x", " ", "(", "y", " ", "(", "d", ")", " ", "#", "1", ")">> >>],
     [GoodPage EXCEPT !.og_title = << <<"x", " ", "(", "y", " ", "#", "1", "2">> >>],
     [GoodPage EXCEPT !.og_title = << <<"x", " ", "(", "y", " ", "#", "-", "5", ")">> >>],
     [GoodPage EXCEPT !.og_title = << <<"x", " ", "(", "y", " ", "#", "2", ".", "5", ")">> >>]}

\* author lists and the role labels next to them
WriterVariants ==
    {[GoodPage EXCEPT !.writer = << [names |-> << <<"p">>, <<"t">> >>,
                                     roles |-> << <<RoleAuthor>>, <<RoleTranslator>> >>] >>],
     [GoodPage EXCEPT !.writer = << [names |-> << <<"p">>, <<"q">>, <<"t">>, <<"u">> >>,
                                     roles |-> << <<RoleAuthor>>, <<",">>,
                                                  <<" ", RoleTranslator>> >>] >>],
     [GoodPage EXCEPT !.writer = << [names |-> << <<"p">>, <<"q">>, <<"t">> >>,
                                     roles |-> << <<",">>, <<RoleAuthor>>, <<",">>,
                                                  <<RoleTranslator>> >>] >>],
     [GoodPage EXCEPT !.writer = << [names |-> << <<"t">>, <<"p">> >>,
                                     roles |-> << <<RoleTranslator>>, <<RoleAuthor>> >>] >>],
     [GoodPage EXCEPT !.writer = << [names |-> << <<"p">>, <<"q">>, <<"r">>, <<"t">> >>,
                                     roles |-> << <<",">>, <<",">>, <<RoleAuthor>>,
                                                  <<RoleTranslator>> >>] >>],
     [GoodPage EXCEPT !.writer = << [names |-> << <<"p">>, <<"q">> >>,
                                     roles |-> << <<",">>, <<" ", RoleAuthor>> >>] >>],
     [GoodPage EXCEPT !.writer = << [names |-> << <<"t">> >>,
                                     roles |-> << <<RoleTranslator>> >>] >>],
     [GoodPage EXCEPT !.writer = << [names |-> << <<"p">> >>,
                                     roles |-> << <<",">> >>] >>]}

\* ISBN fields of several values
IsbnVariants ==
    {[GoodPage EXCEPT !.isbn = << AnIsbn, <<"1">>, Tail(AnIsbn) \o <<"A">> >>],
     [GoodPage EXCEPT !.isbn = << <<"1">>, AnIsbn, <<"2">> >>],
     [GoodPage EXCEPT !.isbn = << <<"1">>, <<"2">> >>],
     [GoodPage EXCEPT !.isbn = << <<" ", "-">> \o AnIsbn \o <<"-", " ">> >>]}

ParserPages == TitleVariants \cup WriterVariants \cup IsbnVariants

\* a few pages, and every page of the model
CorePages ==
    {GoodPage,
     [GoodPage EXCEPT !.errmsg = TRUE],
     [GoodPage EXCEPT !.og_title = <<>>, !.isbn = <<>>, !.probe = Raise]}
AllPages == OptionalVariants \cup AbsentVariants \cup MandatoryVariants

DetailPages(served) ==
    IF served = "core" THEN CorePages
    ELSE IF served = "parsers" THEN ParserPages
    ELSE AllPages

\* what the request for a detail page may end in
DetailResponses(served) ==
    {[kind |-> k, root |-> NoneVal] : k \in {"http404", "timeout", "error", "unparseable"}}
    \cup {[kind |-> "page", root |-> Some(r)] : r \in DetailPages(served)}

\* the queries under which every page of the model is served
WorkerQueries ==
    {[title |-> NoneVal, authors |-> NoneVal, identifiers |-> [ridibooks |-> <<"1">>]],
     [title |-> NoneVal, authors |-> NoneVal, identifiers |-> [ridibooks |-> <<"a">>]],
     [title |-> Some(<<"x", "y">>), authors |-> Some(<< <<"z", "z", "z">> >>),
      identifiers |-> EmptyDict]}

\* parse_title_series run step by step on a display title: its position,
\* the content of og:title, the locals title and series_info, and the
\* passes of the re-balancing loop so far
NewTitleCall(content) ==
    [pc |-> "begin", content |-> content, title |-> <<>>, series_info |-> <<>>,
     passes |-> 0]
\* parse_title_series is not run step by step
NoTitleCall == [NewTitleCall(<<>>) EXCEPT !.pc = "none"]

\* the display titles the loop is run on
TitleChars == {"x", " ", "#", "(", ")"}
TitleStrings == UNION {[1..n -> TitleChars] : n \in 0..MaxTitleLen}

\* download_cover: its position, its local cached_url, the sink of its
\* caller, the cover requests it has issued and what it has logged
NewCoverCall ==
    [pc |-> "begin", cached_url |-> NoneVal, sink |-> <<>>, cover_fetches |-> 0,
     log |-> {}]
\* identify was called by the host itself
NoCoverCall == [NewCoverCall EXCEPT !.pc = "none"]

(***************************************************************************)
(* The state after construction: identify has been called.                 *)
(***************************************************************************)
Start ==
    /\ prefs \in Prefs
    /\ identifiers = query.identifiers
    /\ abort = FALSE
    /\ result_queue = <<>>
    /\ pc = "entry"
    /\ matches = <<>>
    /\ workers = <<>>
    /\ wi = 0
    /\ a_worker_is_alive = FALSE
    /\ calls = 1
    /\ search_fetches = 0
    /\ id_log = {}
    /\ isbn_cache = EmptyDict
    /\ cover_cache = EmptyDict
    /\ queue_at_return = 0
    /\ search_root = NoneVal
    /\ dc = NoCoverCall
    /\ title_call = NoTitleCall

\* every query, a few pages
Init ==
    /\ query \in Queries
    /\ site = "core"
    /\ Start

\* a few queries, every page
WorkerInit ==
    /\ query \in WorkerQueries
    /\ site = "all"
    /\ Start

\* a few queries, the pages that exercise the extraction of title, authors
\* and ISBN
ParserInit ==
    /\ query \in WorkerQueries
    /\ site = "parsers"
    /\ Start

\* parse_title_series alone, on every display title of the bound
TitleInit ==
    /\ query = [title |-> NoneVal, authors |-> NoneVal, identifiers |-> EmptyDict]
    /\ site = "core"
    /\ prefs = [get_all_authors |-> TRUE, genre_mappings |-> NoneVal]
    /\ identifiers = query.identifiers
    /\ abort = FALSE
    /\ result_queue = <<>>
    /\ pc = "idle"
    /\ matches = <<>>
    /\ workers = <<>>
    /\ wi = 0
    /\ a_worker_is_alive = FALSE
    /\ calls = 0
    /\ search_fetches = 0
    /\ id_log = {}
    /\ isbn_cache = EmptyDict
    /\ cover_cache = EmptyDict
    /\ queue_at_return = 0
    /\ search_root = NoneVal
    /\ dc = NoCoverCall
    /\ title_call \in {NewTitleCall(t) : t \in TitleStrings}

\* the queries of download_cover: by identifier, by identifier and ISBN, by
\* ISBN with title and authors, by title and authors, and the empty query
CoverQueries ==
    {[title |-> NoneVal, authors |-> NoneVal, identifiers |-> [ridibooks |-> <<"1">>]],
     [title |-> NoneVal, authors |-> NoneVal,
      identifiers |-> [ridibooks |-> <<"3">>, isbn |-> AnIsbn]],
     [title |-> Some(<<"x", "y">>), authors |-> Some(<< <<"z", "z", "z">> >>),
      identifiers |-> [isbn |-> AnIsbn]],
     [title |-> Some(<<"x", "y">>), authors |-> Some(<< <<"z", "z", "z">> >>),
      identifiers |-> EmptyDict],
     [title |-> NoneVal, authors |-> NoneVal, identifiers |-> EmptyDict]}

\* what the caches of the host may hold from earlier runs
CachedCovers ==
    {EmptyDict, [k \in {<<"1">>} |-> <<"c">>], [k \in {<<"2">>} |-> <<"d">>]}
CachedIsbns == {EmptyDict, [k \in {AnIsbn} |-> <<"1">>]}

\* download_cover has been called; identify has not
CoverInit ==
    /\ query \in CoverQueries
    /\ site = "core"
    /\ prefs \in Prefs
    /\ identifiers = query.identifiers
    /\ abort = FALSE
    /\ result_queue = <<>>
    /\ pc = "idle"
    /\ matches = <<>>
    /\ workers = <<>>
    /\ wi = 0
    /\ a_worker_is_alive = FALSE
    /\ calls = 0
    /\ search_fetches = 0
    /\ id_log = {}
    /\ isbn_cache \in CachedIsbns
    /\ cover_cache \in CachedCovers
    /\ queue_at_return = 0
    /\ search_root = NoneVal
    /\ dc = NewCoverCall
    /\ title_call = NoTitleCall

\* a few queries, a few pages
SuperviseInit ==
    /\ query \in WorkerQueries
    /\ site = "core"
    /\ Start

(***************************************************************************)
(* RidiBooks.identify                                                      *)
(***************************************************************************)
\* the flag read as never set
is_set_never == FALSE

\* abort.is_set()
is_set == abort

\* identify returns to the host
Return ==
    /\ pc' = "returned"
    /\ queue_at_return' = Len(result_queue)

\* lines 95-109: the direct path, or the construction of the search query
IdentifyEntry ==
    /\ pc = "entry"
    /\ LET ridibooks_id == Get(identifiers, "ridibooks")
           search_query == create_query(query.title, query.authors)
       IN  IF Truthy(ridibooks_id)
           THEN /\ matches' = <<DetailUrl(ridibooks_id[1])>>
                /\ pc' = "check"
                /\ UNCHANGED <<id_log, queue_at_return>>
           ELSE IF search_query = NoneVal
           THEN /\ matches' = <<>>
                /\ id_log' = id_log \cup {"Insufficient metadata to construct query"}
                /\ Return
           ELSE /\ matches' = <<>>
                /\ pc' = "search"
                /\ UNCHANGED <<id_log, queue_at_return>>
    /\ UNCHANGED <<title_call, dc,
                   search_root, query, site, prefs, identifiers, abort, result_queue, workers, wi,
                   a_worker_is_alive, calls, search_fetches, isbn_cache, cover_cache>>

\* lines 110-132: the search request, the parse of its answer and the match
Search ==
    /\ pc = "search"
    /\ search_fetches' = search_fetches + 1
    /\ \E response \in SearchResponses :
        CASE response.kind = "error" ->
                /\ id_log' = id_log \cup {"Failed to make identify query"}
                /\ Return
                /\ UNCHANGED <<matches, search_root>>
          [] response.kind = "empty" ->
                /\ id_log' = id_log \cup {"Failed to get raw result for query"}
                /\ Return
                /\ UNCHANGED <<matches, search_root>>
          [] response.kind \in {"read_error", "unparseable"} ->
                /\ id_log' = id_log \cup {"Failed to parse goodreads page for query"}
                /\ Return
                /\ UNCHANGED <<matches, search_root>>
          [] response.kind = "page" ->
                LET found == parse_search_results(query.title, query.authors,
                                                  response.root, matches)
                IN  /\ search_root' = Some(response.root)
                    /\ matches' = found.matches
                    /\ pc' = IF found.raised THEN "raised" ELSE "check"
                    /\ UNCHANGED <<id_log, queue_at_return>>
    /\ UNCHANGED <<title_call, dc,
                   query, site, prefs, identifiers, abort, result_queue, workers, wi,
                   a_worker_is_alive, calls, isbn_cache, cover_cache>>

\* the condition of the retry without the test of the identifiers
retry_wanted_without_ids(ids, title, authors) == Truthy(title) /\ Truthy(authors)

\* line 138: the condition of the retry without identifiers
retry_wanted(ids, title, authors) ==
    DOMAIN ids # {} /\ Truthy(title) /\ Truthy(authors)

\* lines 134-148: the abort check, the retry, the construction of the Workers
CheckMatches ==
    /\ pc = "check"
    /\ IF is_set
       THEN /\ Return
            /\ UNCHANGED <<identifiers, calls, workers, wi, id_log>>
       ELSE IF matches = <<>>
       THEN IF retry_wanted(identifiers, query.title, query.authors)
            THEN /\ id_log' = id_log \cup {"No matches found with identifiers, retrying"}
                 /\ identifiers' = EmptyDict
                 /\ calls' = calls + 1
                 /\ pc' = "entry"
                 /\ UNCHANGED <<workers, wi, queue_at_return>>
            ELSE /\ id_log' = id_log \cup {"No matches found with query"}
                 /\ Return
                 /\ UNCHANGED <<identifiers, calls, workers, wi>>
       ELSE /\ workers' = [i \in 1..Len(matches) |-> NewWorker(matches[i], i - 1)]
            /\ wi' = 1
            /\ pc' = "start"
            /\ UNCHANGED <<identifiers, calls, id_log, queue_at_return>>
    /\ search_root' = NoneVal
    /\ UNCHANGED <<title_call, dc,
                   query, site, prefs, abort, result_queue, matches, a_worker_is_alive,
                   search_fetches, isbn_cache, cover_cache>>

\* lines 150-153: w.start() and the pause after it
StartWorker ==
    /\ pc = "start"
    /\ IF wi <= Len(workers)
       THEN /\ workers' = [workers EXCEPT ![wi].pc = "run"]
            /\ wi' = wi + 1
            /\ pc' = "start"
       ELSE /\ pc' = "while"
            /\ UNCHANGED <<workers, wi>>
    /\ UNCHANGED <<title_call, dc,
                   search_root, query, site, prefs, identifiers, abort, result_queue, matches,
                   a_worker_is_alive, calls, search_fetches, id_log, isbn_cache,
                   cover_cache, queue_at_return>>

\* is_alive answering that the thread has ended whatever its state
is_alive_never(w) == FALSE

\* w.is_alive()
is_alive(w) == w.pc \notin {"created", "done"}

\* line 155-156: while not abort.is_set()
WhileHead ==
    /\ pc = "while"
    /\ IF is_set
       THEN /\ Return
            /\ UNCHANGED <<wi, a_worker_is_alive>>
       ELSE /\ a_worker_is_alive' = FALSE
            /\ wi' = 1
            /\ pc' = "for"
            /\ UNCHANGED queue_at_return
    /\ UNCHANGED <<title_call, dc,
                   search_root, query, site, prefs, identifiers, abort, result_queue, matches, workers,
                   calls, search_fetches, id_log, isbn_cache, cover_cache>>

\* lines 157-160: w.join(0.2) has returned; break out of the for on abort
ForJoin ==
    /\ pc = "for"
    /\ pc' = IF wi > Len(workers) \/ is_set THEN "after_for" ELSE "is_alive"
    /\ UNCHANGED <<title_call, dc,
                   search_root, query, site, prefs, identifiers, abort, result_queue, matches, workers,
                   wi, a_worker_is_alive, calls, search_fetches, id_log, isbn_cache,
                   cover_cache, queue_at_return>>

\* lines 161-162
CheckAlive ==
    /\ pc = "is_alive"
    /\ a_worker_is_alive' = (a_worker_is_alive \/ is_alive(workers[wi]))
    /\ wi' = wi + 1
    /\ pc' = "for"
    /\ UNCHANGED <<title_call, dc,
                   search_root, query, site, prefs, identifiers, abort, result_queue, matches, workers,
                   calls, search_fetches, id_log, isbn_cache, cover_cache,
                   queue_at_return>>

\* AfterFor falling back to the search by title and authors when the
\* Workers have ended and the sink is empty
AfterFor_retry ==
    /\ pc = "after_for"
    /\ IF a_worker_is_alive
       THEN pc' = "while" /\ UNCHANGED <<identifiers, calls, queue_at_return>>
       ELSE IF result_queue = <<>>
               /\ retry_wanted(identifiers, query.title, query.authors)
            THEN /\ identifiers' = EmptyDict
                 /\ calls' = calls + 1
                 /\ pc' = "entry"
                 /\ UNCHANGED queue_at_return
            ELSE Return /\ UNCHANGED <<identifiers, calls>>
    /\ UNCHANGED <<title_call, dc,
                   search_root, query, site, prefs, abort, result_queue, matches, workers, wi,
                   a_worker_is_alive, search_fetches, id_log, isbn_cache, cover_cache>>

\* lines 163-166
AfterFor ==
    /\ pc = "after_for"
    /\ IF ~a_worker_is_alive
       THEN Return
       ELSE pc' = "while" /\ UNCHANGED queue_at_return
    /\ UNCHANGED <<title_call, dc,
                   search_root, query, site, prefs, identifiers, abort, result_queue, matches, workers,
                   wi, a_worker_is_alive, calls, search_fetches, id_log, isbn_cache,
                   cover_cache>>

\* the host sets the abort flag
SetAbort ==
    /\ ~abort
    /\ abort' = TRUE
    /\ UNCHANGED <<title_call, dc,
                   search_root, query, site, prefs, identifiers, result_queue, pc, matches, workers,
                   wi, a_worker_is_alive, calls, search_fetches, id_log, isbn_cache,
                   cover_cache, queue_at_return>>

(***************************************************************************)
(* Worker.run and Worker.get_details, for the Worker at position i.        *)
(***************************************************************************)
\* dict[k] = v
DictPut(d, k, v) == [x \in DOMAIN d \cup {k} |-> IF x = k THEN v ELSE d[x]]

\* lines 61-87: the request for the page and the parse of the answer
fetch_details(w, response) ==
    CASE response.kind = "http404" ->
            [Logged(w, "URL malformed") EXCEPT !.pc = "done"]
      [] response.kind = "timeout" ->
            [Logged(w, "Ridibooks timed out. Try again later.") EXCEPT !.pc = "done"]
      [] response.kind = "error" ->
            [Logged(w, "Failed to make details query") EXCEPT !.pc = "done"]
      [] response.kind = "unparseable" ->
            [Logged(w, "Failed to parse Ridibooks details page") EXCEPT !.pc = "done"]
      [] response.kind = "page" ->
            [w EXCEPT !.root = response.root, !.pc = "parse"]

\* lines 89-110: the error element, whose serialisation raises TypeError
\* (tostring is given the list of nodes), then parse_details
check_page(w, plugin_prefs) ==
    IF w.root[1].errmsg
    THEN Escaped(w)
    ELSE LET parsed == parse_details([w EXCEPT !.root = w.root[1]], plugin_prefs)
         IN  [parsed EXCEPT !.root = Some(parsed.root)]

\* run without the except clause: the exception leaves the thread
run_no_except(w) == [w EXCEPT !.pc = "escaped"]

\* line 57: the except clause of run
run_except(w) == [Logged(w, "get_details failed") EXCEPT !.pc = "done"]

WFetch ==
    \E i \in 1..Len(workers) :
        /\ workers[i].pc = "run"
        /\ \E response \in DetailResponses(site) :
            workers' = [workers EXCEPT ![i] = fetch_details(workers[i], response)]
        /\ UNCHANGED <<title_call, dc,
                   search_root, query, site, prefs, identifiers, abort, result_queue, pc, matches, wi,
                       a_worker_is_alive, calls, search_fetches, id_log, isbn_cache,
                       cover_cache, queue_at_return>>

WParse ==
    \E i \in 1..Len(workers) :
        /\ workers[i].pc = "parse"
        /\ workers' = [workers EXCEPT ![i] = check_page(workers[i], prefs)]
        /\ UNCHANGED <<title_call, dc,
                   search_root, query, site, prefs, identifiers, abort, result_queue, pc, matches, wi,
                       a_worker_is_alive, calls, search_fetches, id_log, isbn_cache,
                       cover_cache, queue_at_return>>

\* lines 190-195: the two cache writes; either call of the host may raise
WCache ==
    \E i \in 1..Len(workers) :
        /\ workers[i].pc = "cache"
        /\ LET w == workers[i]
               with_isbn == Truthy(w.ridibooks_id) /\ Truthy(w.isbn)
               with_cover == Truthy(w.ridibooks_id) /\ Truthy(w.cover_url)
           IN  \E raises \in {"none", "isbn", "cover"} :
                /\ raises = "isbn" => with_isbn
                /\ raises = "cover" => with_cover
                /\ isbn_cache' = IF with_isbn /\ raises # "isbn"
                                 THEN DictPut(isbn_cache, w.isbn[1], w.ridibooks_id[1])
                                 ELSE isbn_cache
                /\ cover_cache' = IF with_cover /\ raises = "none"
                                  THEN DictPut(cover_cache, w.ridibooks_id[1], w.cover_url[1])
                                  ELSE cover_cache
                /\ workers' = [workers EXCEPT ![i] =
                      [w EXCEPT !.pc = IF raises = "none" THEN "clean" ELSE "exc",
                                !.hook_raised = (raises # "none"),
                                !.cached = (IF with_isbn /\ raises # "isbn"
                                            THEN {"isbn"} ELSE {})
                                           \cup (IF with_cover /\ raises = "none"
                                                 THEN {"cover"} ELSE {})]]
        /\ UNCHANGED <<title_call, dc,
                   search_root, query, site, prefs, identifiers, abort, result_queue, pc, matches, wi,
                       a_worker_is_alive, calls, search_fetches, id_log, queue_at_return>>

\* line 197: the cleanup hook of the host, which may raise
WClean ==
    \E i \in 1..Len(workers) :
        /\ workers[i].pc = "clean"
        /\ \E raises \in BOOLEAN :
            workers' = [workers EXCEPT ![i] =
                IF raises THEN Escaped([workers[i] EXCEPT !.hook_raised = TRUE])
                ELSE [SetField(workers[i], "cleaned", TRUE) EXCEPT !.pc = "put"]]
        /\ UNCHANGED <<title_call, dc,
                   search_root, query, site, prefs, identifiers, abort, result_queue, pc, matches, wi,
                       a_worker_is_alive, calls, search_fetches, id_log, isbn_cache,
                       cover_cache, queue_at_return>>

\* line 199
WPut ==
    \E i \in 1..Len(workers) :
        /\ workers[i].pc = "put"
        /\ result_queue' = Append(result_queue, workers[i].mi[1])
        /\ workers' = [workers EXCEPT ![i].pc = "done", ![i].puts = @ + 1]
        /\ UNCHANGED <<title_call, dc,
                   search_root, query, site, prefs, identifiers, abort, pc, matches, wi,
                       a_worker_is_alive, calls, search_fetches, id_log, isbn_cache,
                       cover_cache, queue_at_return>>

\* lines 54-58: run catches whatever get_details raised
WCatch ==
    \E i \in 1..Len(workers) :
        /\ workers[i].pc = "exc"
        /\ workers' = [workers EXCEPT ![i] = run_except(workers[i])]
        /\ UNCHANGED <<title_call, dc,
                   search_root, query, site, prefs, identifiers, abort, result_queue, pc, matches, wi,
                       a_worker_is_alive, calls, search_fetches, id_log, isbn_cache,
                       cover_cache, queue_at_return>>

(***************************************************************************)
(* RidiBooks.download_cover.  The queue identify fills is then the private *)
(* queue rq; dc.sink is the result_queue argument of download_cover.       *)
(***************************************************************************)
\* the lookup by the external identifier alone
get_cached_cover_url_direct(ids, isbn_to_identifier, identifier_to_cover_url) ==
    IF "ridibooks" \in DOMAIN ids
    THEN Get(identifier_to_cover_url, ids.ridibooks)
    ELSE NoneVal

\* RidiBooks.get_cached_cover_url, over the two caches of the host
get_cached_cover_url(ids, isbn_to_identifier, identifier_to_cover_url) ==
    LET direct == Get(ids, "ridibooks")
        isbn == Get(ids, "isbn")
        ridibooks_id == IF direct = NoneVal /\ isbn # NoneVal
                        THEN Get(isbn_to_identifier, isbn[1])
                        ELSE direct
    IN  IF ridibooks_id # NoneVal
        THEN Get(identifier_to_cover_url, ridibooks_id[1])
        ELSE NoneVal

\* mi.identifiers: the identifiers set on a record
mi_identifiers(mi) ==
    [k \in (IF mi.ridibooks # NoneVal THEN {"ridibooks"} ELSE {})
           \cup (IF mi.isbn # NoneVal THEN {"isbn"} ELSE {}) |->
        IF k = "ridibooks" THEN mi.ridibooks[1] ELSE mi.isbn[1]]

\* the key of identify_results_keygen of the host: records that carry the
\* identifier of the query first, then by rank
keygen(mi, ids) ==
    <<IF Get(ids, "ridibooks") # NoneVal /\ mi.ridibooks = Get(ids, "ridibooks")
      THEN 0 ELSE 1,
      IF mi.source_relevance = NoneVal THEN 0 ELSE mi.source_relevance[1]>>

KeyLess(a, b) == a[1] < b[1] \/ (a[1] = b[1] /\ a[2] < b[2])

\* results.sort(key=...): a stable sort
RECURSIVE InsertByKey(_, _, _)
InsertByKey(mi, sorted, ids) ==
    IF sorted = <<>> THEN <<mi>>
    ELSE IF KeyLess(keygen(mi, ids), keygen(Head(sorted), ids))
         THEN <<mi>> \o sorted
         ELSE <<Head(sorted)>> \o InsertByKey(mi, Tail(sorted), ids)

RECURSIVE sort_results(_, _)
sort_results(results, ids) ==
    IF results = <<>> THEN <<>>
    ELSE InsertByKey(results[Len(results)],
                     sort_results(SubSeq(results, 1, Len(results) - 1), ids), ids)

\* the loop of lines 220-223 left out: no record is looked up
first_cached_none(results, isbn_to_identifier, identifier_to_cover_url) == NoneVal

\* lines 220-223: the cached cover URL of the first record that has one
RECURSIVE first_cached(_, _, _)
first_cached(results, isbn_to_identifier, identifier_to_cover_url) ==
    IF results = <<>> THEN NoneVal
    ELSE LET url == get_cached_cover_url(mi_identifiers(Head(results)),
                                         isbn_to_identifier, identifier_to_cover_url)
         IN  IF url # NoneVal THEN url
             ELSE first_cached(Tail(results), isbn_to_identifier,
                               identifier_to_cover_url)

\* (self, cdata): the item download_cover puts, cdata being what url serves
CoverBlob(url) == [cover_of |-> url]

\* lines 204-209: the cache lookup; on a miss identify is called
DcBegin ==
    /\ dc.pc = "begin"
    /\ LET cached_url == get_cached_cover_url(query.identifiers, isbn_cache, cover_cache)
       IN  IF cached_url = NoneVal
           THEN /\ dc' = [dc EXCEPT !.pc = "identify",
                                    !.log = @ \cup {"No cached cover found, running identify"}]
                /\ pc' = "entry"
                /\ calls' = calls + 1
           ELSE /\ dc' = [dc EXCEPT !.pc = "found", !.cached_url = cached_url]
                /\ UNCHANGED <<pc, calls>>
    /\ UNCHANGED <<title_call,
                   search_root, query, site, prefs, identifiers, abort, result_queue,
                   matches, workers, wi, a_worker_is_alive, search_fetches, id_log,
                   isbn_cache, cover_cache, queue_at_return>>

\* lines 208-223: identify is back; the abort check, then the private queue
\* is drained and sorted and searched for a cached cover URL
DcAfterIdentify ==
    /\ dc.pc = "identify"
    /\ pc \in {"returned", "raised"}
    /\ IF pc = "raised"
       THEN dc' = [dc EXCEPT !.pc = "raised"] /\ UNCHANGED result_queue
       ELSE IF is_set
       THEN dc' = [dc EXCEPT !.pc = "returned"] /\ UNCHANGED result_queue
       ELSE LET results == sort_results(result_queue, query.identifiers)
            IN  /\ result_queue' = <<>>
                /\ dc' = [dc EXCEPT !.pc = "found",
                                    !.cached_url = first_cached(results, isbn_cache,
                                                                cover_cache)]
    /\ UNCHANGED <<title_call,
                   search_root, query, site, prefs, identifiers, abort, pc, matches,
                   workers, wi, a_worker_is_alive, calls, search_fetches, id_log,
                   isbn_cache, cover_cache, queue_at_return>>

\* lines 224-229: no URL, or abort set: return
DcFound ==
    /\ dc.pc = "found"
    /\ dc' = IF dc.cached_url = NoneVal
             THEN [dc EXCEPT !.pc = "returned", !.log = @ \cup {"No cover found"}]
             ELSE IF is_set THEN [dc EXCEPT !.pc = "returned"]
             ELSE [dc EXCEPT !.pc = "fetch"]
    /\ UNCHANGED <<title_call,
                   search_root, query, site, prefs, identifiers, abort, result_queue, pc,
                   matches, workers, wi, a_worker_is_alive, calls, search_fetches,
                   id_log, isbn_cache, cover_cache, queue_at_return>>

\* lines 230-236: the request for the cover, and the put of what it brought
DcFetch ==
    /\ dc.pc = "fetch"
    /\ \E fetched \in BOOLEAN :
        dc' = IF fetched
              THEN [dc EXCEPT !.pc = "returned", !.cover_fetches = @ + 1,
                              !.sink = Append(@, CoverBlob(dc.cached_url[1]))]
              ELSE [dc EXCEPT !.pc = "returned", !.cover_fetches = @ + 1,
                              !.log = @ \cup {"Failed to download cover from:"}]
    /\ UNCHANGED <<title_call,
                   search_root, query, site, prefs, identifiers, abort, result_queue, pc,
                   matches, workers, wi, a_worker_is_alive, calls, search_fetches,
                   id_log, isbn_cache, cover_cache, queue_at_return>>

\* lines 205-233: up to the head of the re-balancing loop
TsSplit ==
    /\ title_call.pc = "begin"
    /\ LET title_text == Strip(title_call.content)
           text_split == rpartition(title_text, "(")
           hash_pos == Find(text_split[3], "#") - 1
       IN  title_call' = IF Find(title_text, "(") = 0 \/ hash_pos <= 0
                 THEN [title_call EXCEPT !.pc = "done", !.title = title_text]
                 ELSE [title_call EXCEPT !.pc = "while", !.title = text_split[1],
                                 !.series_info = SubSeq(text_split[3], 1,
                                                        Len(text_split[3]) - 1)]
    /\ UNCHANGED <<dc, search_root, query, site, prefs, identifiers, abort,
                   result_queue, pc, matches, workers, wi, a_worker_is_alive, calls,
                   search_fetches, id_log, isbn_cache, cover_cache, queue_at_return>>

\* lines 234-237: the test of the loop and one pass of it; passes stops
\* counting beyond the length of the title
TsWhile ==
    /\ title_call.pc = "while"
    /\ title_call' = IF Count(title_call.series_info, ")") # Count(title_call.series_info, "(")
             THEN LET next == rebalance_once(title_call.title, title_call.series_info)
                  IN  [title_call EXCEPT !.title = next[1], !.series_info = next[2],
                                 !.passes = IF @ <= Len(title_call.content) THEN @ + 1 ELSE @]
             ELSE [title_call EXCEPT !.pc = "done"]
    /\ UNCHANGED <<dc, search_root, query, site, prefs, identifiers, abort,
                   result_queue, pc, matches, workers, wi, a_worker_is_alive, calls,
                   search_fetches, id_log, isbn_cache, cover_cache, queue_at_return>>

TitleStep ==
    \/ TsSplit
    \/ TsWhile

CoverStep ==
    \/ DcBegin
    \/ DcAfterIdentify
    \/ DcFound
    \/ DcFetch

WorkerStep ==
    \/ WFetch
    \/ WParse
    \/ WCache
    \/ WClean
    \/ WPut
    \/ WCatch

IdentifyStep ==
    \/ IdentifyEntry
    \/ Search
    \/ CheckMatches
    \/ StartWorker
    \/ WhileHead
    \/ ForJoin
    \/ CheckAlive
    \/ AfterFor

Next == IdentifyStep \/ WorkerStep \/ SetAbort

Spec == Init /\ [][Next]_vars

WorkerSpec == WorkerInit /\ [][Next]_vars

ParserSpec == ParserInit /\ [][Next]_vars

\* parse_title_series runs in the thread of its Worker, which is scheduled
\* until it ends
TitleSpec == TitleInit /\ [][TitleStep]_vars /\ WF_vars(TitleStep)

\* download_cover, the identify it calls, the Workers and the abort setter
CoverNext == CoverStep \/ Next

CoverSpec == CoverInit /\ [][CoverNext]_vars

\* identify runs in a thread of the host that is scheduled again and again:
\* every wait of the loop is bounded (join(0.2), sleep(0.1))
SuperviseSpec == SuperviseInit /\ [][Next]_vars /\ WF_vars(IdentifyStep)

(***************************************************************************)
(* Properties of the Worker, checked under WorkerSpec.                     *)
(***************************************************************************)
Ws == {workers[i] : i \in 1..Len(workers)}

\* the Worker has a page and parse_details has run on it or was not reached
Parsed(w) == w.root # NoneVal /\ w.pc \notin {"created", "run", "parse"}

TitleExtracted(w) == Truthy(parse_title_series(w.root[1])[1])
AuthorsExtracted(w) ==
    LET au == parse_authors(w.root[1], prefs.get_all_authors)
    IN  au.ok /\ Truthy(au.val)
IdentifierExtracted(w) == parse_ridibooks_id(w.url).ok
MandatoryExtracted(w) ==
    TitleExtracted(w) /\ AuthorsExtracted(w) /\ IdentifierExtracted(w)

\* the records in the sink that come from Worker w
RecordsOf(w) ==
    {k \in 1..Len(result_queue) :
        result_queue[k].source_relevance = Some(w.relevance)}

\* C1: a Worker puts at most one record into the result sink, and exactly
\* one when the fetch succeeded, the page has no error element, title,
\* authors and identifier were extracted and no host hook raised.
C1_AtMostOneExactlyOne ==
    /\ Len(result_queue) <= Len(workers)
    /\ \A w \in Ws :
        /\ w.puts <= 1
        /\ Cardinality(RecordsOf(w)) = w.puts
        /\ (/\ w.pc = "done"
            /\ w.root # NoneVal
            /\ ~w.root[1].errmsg
            /\ MandatoryExtracted(w)
            /\ ~w.hook_raised) => w.puts = 1

C1_Witness ==
    \E w \in Ws :
        /\ w.pc = "done" /\ w.puts = 1 /\ Len(result_queue) = 1
        /\ w.root # NoneVal /\ MandatoryExtracted(w) /\ ~w.hook_raised
        /\ "Error parsing ISBN" \in w.log

\* the messages of the failure paths of get_details and of run
FailureMessages ==
    {"URL malformed", "Ridibooks timed out. Try again later.",
     "Failed to make details query", "Failed to parse Ridibooks details page",
     "get_details failed"}

\* C2: on every failure path (not found, timeout, any other fetch failure,
\* unparseable page, error element on the page, any exception inside
\* get_details or parse_details) the Worker ends with nothing put into the
\* sink, and no exception leaves run.
C2_FailureIsSilent ==
    \A w \in Ws :
        /\ w.pc \in {"created", "run", "parse", "cache", "clean", "put", "exc", "done"}
        /\ (w.log \cap FailureMessages # {} \/ w.pc = "exc"
            \/ (w.root # NoneVal /\ w.root[1].errmsg /\ w.pc # "parse"))
           => /\ w.puts = 0
              /\ RecordsOf(w) = {}
              /\ w.pc \in {"exc", "done"}
        /\ w.pc = "done" /\ w.root # NoneVal /\ w.root[1].errmsg
           => "get_details failed" \in w.log

C2_Witness ==
    \E w \in Ws :
        /\ w.pc = "done" /\ w.puts = 0 /\ result_queue = <<>>
        /\ w.root # NoneVal /\ w.root[1].errmsg
        /\ "get_details failed" \in w.log

\* C3: when title, authors or identifier cannot be extracted the Worker
\* publishes nothing and writes to neither cache; no other field is needed:
\* with the three extracted the record is built whatever else fails.
C3_MandatoryFields ==
    \A w \in Ws :
        (Parsed(w) /\ ~w.root[1].errmsg) =>
            IF MandatoryExtracted(w)
            THEN /\ w.mi # NoneVal
                 /\ w.pc = "exc" => w.hook_raised
            ELSE /\ w.pc = "done"
                 /\ w.mi = NoneVal
                 /\ w.puts = 0
                 /\ RecordsOf(w) = {}
                 /\ w.cached = {}
                 /\ DOMAIN isbn_cache = {}
                 /\ DOMAIN cover_cache = {}
                 /\ "Could not find title/authors/ridibooks id" \in w.log

C3_Witness ==
    \E w \in Ws :
        /\ Parsed(w) /\ ~w.root[1].errmsg /\ w.pc = "done"
        /\ TitleExtracted(w) /\ IdentifierExtracted(w) /\ ~AuthorsExtracted(w)
        /\ parse_isbn(w.root[1]).ok /\ parse_cover(w.root[1]).ok
        /\ result_queue = <<>> /\ DOMAIN isbn_cache = {} /\ DOMAIN cover_cache = {}

\* what the record must hold for each optional field, from the extraction
\* of that field alone: its value when the extraction succeeds, the default
\* of a new record when it raises
OrDefault(outcome) == IF outcome.ok THEN outcome.val ELSE NoneVal

OptionalFieldsRight(w, mi) ==
    LET r == w.root[1]
        pd == parse_publisher_date(r)
        tags == parse_tags(r, prefs)
    IN  /\ mi.isbn = OrDefault(parse_isbn(r))
        /\ w.isbn = mi.isbn
        /\ mi.rating = OrDefault(parse_rating(r))
        /\ mi.publisher = (IF pd.ok THEN Some(pd.val[1]) ELSE NoneVal)
        /\ mi.pubdate = (IF pd.ok THEN Some(pd.val[2]) ELSE NoneVal)
        /\ mi.comments = OrDefault(parse_comments(r))
        /\ w.cover_url = OrDefault(parse_cover(r))
        /\ mi.has_cover = (w.cover_url # NoneVal)
        /\ mi.tags = (IF tags.ok /\ tags.val # NoneVal THEN tags.val[1] ELSE <<>>)
        /\ mi.language = Some("Korean")

\* the optional extractions that raise on the page of Worker w
FailedFields(w) ==
    LET r == w.root[1]
    IN  {f \in {"isbn", "rating", "publisher_date", "comments", "cover", "tags"} :
            CASE f = "isbn" -> ~parse_isbn(r).ok
              [] f = "rating" -> ~parse_rating(r).ok
              [] f = "publisher_date" -> ~parse_publisher_date(r).ok
              [] f = "comments" -> ~parse_comments(r).ok
              [] f = "cover" -> ~parse_cover(r).ok
              [] f = "tags" -> ~parse_tags(r, prefs).ok}

\* C4: with the three mandatory fields extracted, whichever optional
\* extractions raise, the record is built and published exactly once (the
\* host hooks not raising); on it every optional field whose extraction
\* raised is absent or at its default and every other one holds the value
\* its extraction gives.
C4_OptionalFailuresDegrade ==
    \A w \in Ws :
        (Parsed(w) /\ ~w.root[1].errmsg /\ MandatoryExtracted(w)) =>
            /\ w.mi # NoneVal
            /\ OptionalFieldsRight(w, w.mi[1])
            /\ w.pc \in {"cache", "clean", "put", "exc", "done"}
            /\ w.pc = "exc" => w.hook_raised
            /\ (w.pc = "done" /\ ~w.hook_raised) =>
                /\ w.puts = 1
                /\ Len(result_queue) = 1
                /\ result_queue[1] = w.mi[1]
                /\ OptionalFieldsRight(w, result_queue[1])

C4_Witness ==
    \E w \in Ws :
        /\ Parsed(w) /\ MandatoryExtracted(w) /\ w.pc = "done" /\ w.puts = 1
        /\ FailedFields(w) = {"isbn", "rating", "publisher_date", "comments",
                              "cover", "tags"}
        /\ Len(result_queue) = 1
        /\ result_queue[1].isbn = NoneVal /\ ~result_queue[1].has_cover

\* some but not all optional extractions raise, and the others are on the record
C4_WitnessPartial ==
    \E w \in Ws :
        /\ Parsed(w) /\ MandatoryExtracted(w) /\ w.pc = "done" /\ w.puts = 1
        /\ FailedFields(w) = {"rating", "cover"}
        /\ Len(result_queue) = 1
        /\ result_queue[1].isbn # NoneVal /\ result_queue[1].tags # <<>>
        /\ result_queue[1].rating = NoneVal

(***************************************************************************)
(* Properties of identify, checked under Spec.                             *)
(***************************************************************************)
\* the external identifier of the query, as identify reads it (line 99)
QueryId == Get(query.identifiers, "ridibooks")
KnownIdentifier == Truthy(QueryId)

\* identify is past the construction of its Workers
Supervising == pc \in {"while", "for", "is_alive", "after_for"}

\* what the direct path does whatever the abort flag and the identifier are
DirectPathCommon ==
    /\ search_fetches = 0
    /\ calls = 1
    /\ pc \notin {"search", "raised"}
    /\ pc # "entry" => matches = <<DetailUrl(QueryId[1])>>
    /\ Len(workers) <= 1
    /\ \A w \in Ws : w.url = DetailUrl(QueryId[1]) /\ w.relevance = 0
    /\ Supervising => Len(workers) = 1 /\ workers[1].pc # "created"
    /\ \A k \in 1..Len(result_queue) : result_queue[k].source_relevance = Some(0)

\* C5: with a known external identifier identify fetches no search page and
\* derives the one candidate URL built from the identifier; unless abort is
\* set before the Workers are built it starts exactly one Worker, of rank 0;
\* a record that Worker publishes has source_relevance 0 and, as identifier,
\* the leading decimal digits of the identifier of the query.
C5_DirectPath ==
    KnownIdentifier =>
        /\ DirectPathCommon
        /\ pc = "returned" =>
            IF workers = <<>> THEN abort
            ELSE Len(workers) = 1 /\ workers[1].pc # "created"
        /\ \A k \in 1..Len(result_queue) :
            result_queue[k].ridibooks = Some(LeadingDigits(QueryId[1]))

\* C5 as the specification states it: one Worker is started on every run and
\* the record carries the identifier of the query itself
C5_AsStated ==
    KnownIdentifier =>
        /\ DirectPathCommon
        /\ pc = "returned" => Len(workers) = 1 /\ workers[1].pc # "created"
        /\ \A k \in 1..Len(result_queue) : result_queue[k].ridibooks = QueryId

C5_Witness ==
    /\ KnownIdentifier /\ pc = "returned" /\ ~abort
    /\ Len(workers) = 1 /\ workers[1].pc = "done"
    /\ Len(result_queue) = 1
    /\ result_queue[1].ridibooks = QueryId
    /\ result_queue[1].source_relevance = Some(0)

\* the caller supplied identifiers together with title and authors
SuppliedForRetry ==
    DOMAIN query.identifiers # {} /\ Truthy(query.title) /\ Truthy(query.authors)

\* the first call has fetched and parsed a search page and the match has
\* left no candidate: identify is at line 134
ZeroCandidates == pc = "check" /\ calls = 1 /\ search_fetches = 1 /\ matches = <<>>

\* at most one re-run, and a fetch of the search page at most once per run
RetryBounds ==
    /\ calls \in {1, 2}
    /\ search_fetches <= calls
    /\ calls = 2 => identifiers = EmptyDict /\ SuppliedForRetry

\* the step that leaves line 134 of the re-run: it cannot start another run
NoSecondRetry == (calls = 2 /\ pc = "check" /\ pc' # pc) => (calls' = 2 /\ pc' # "entry")

\* C6: when the search page was fetched and parsed, the match leaves zero
\* candidates, abort is not set by then and the caller supplied identifiers
\* together with title and authors, identify re-runs with the identifiers
\* cleared; the re-run never starts another one, so one call of identify
\* fetches the search page at most twice.
C6_RetryOnce ==
    /\ []RetryBounds
    /\ [][/\ (ZeroCandidates /\ SuppliedForRetry /\ pc' # pc) =>
                IF abort
                THEN calls' = 1 /\ pc' = "returned"
                ELSE calls' = 2 /\ identifiers' = EmptyDict /\ pc' = "entry"
          /\ NoSecondRetry]_vars

\* C6 as the specification states it: the re-run follows whenever the search
\* leaves zero candidates
C6_AsStated ==
    /\ []RetryBounds
    /\ [][/\ (ZeroCandidates /\ SuppliedForRetry /\ pc' # pc) =>
                (calls' = 2 /\ identifiers' = EmptyDict /\ pc' = "entry")
          /\ NoSecondRetry]_vars

C6_Witness ==
    /\ SuppliedForRetry /\ ~abort
    /\ calls = 2 /\ search_fetches = 2 /\ identifiers = EmptyDict
    /\ pc = "returned" /\ matches = <<>>
    /\ "No matches found with query" \in id_log

\* the Worker of the direct path has ended without a record
DirectWorkerFailed ==
    /\ KnownIdentifier
    /\ Len(workers) = 1 /\ workers[1].pc = "done" /\ workers[1].puts = 0

\* C7: with an identifier and title and authors in the query, when the
\* Worker of the direct path fails and publishes nothing, identify does not
\* re-run: no search page is fetched and no second Worker is built.  A
\* re-run starts only at line 134 of a run that fetched a search page and
\* was left without candidates.
C7_NoRetryAfterWorkerFailure ==
    /\ [](DirectWorkerFailed =>
            /\ calls = 1 /\ search_fetches = 0
            /\ pc \in {"start", "while", "for", "is_alive", "after_for", "returned"}
            /\ identifiers = query.identifiers
            /\ result_queue = <<>>
            /\ "No matches found with identifiers, retrying" \notin id_log)
    /\ [][(calls' # calls \/ identifiers' # identifiers) =>
            /\ pc = "check" /\ matches = <<>> /\ ~KnownIdentifier
            /\ search_fetches = calls
            /\ workers = <<>>]_vars

C7_Witness ==
    /\ DirectWorkerFailed /\ Truthy(query.title) /\ Truthy(query.authors)
    /\ "URL malformed" \in workers[1].log
    /\ pc = "returned" /\ ~abort
    /\ result_queue = <<>> /\ search_fetches = 0 /\ calls = 1

\* C8: no error leaves identify, whatever the query and whatever the outcome
\* of the query construction, the search fetch, the parse of the search page
\* and the match, an entry without title, author or link node included.
C8_NoErrorPropagates == pc # "raised"

\* the query has no usable identifier and its title and authors give no token
NoUsableTokens ==
    /\ ~KnownIdentifier
    /\ get_title_tokens(query.title, FALSE) = <<>>
    /\ get_author_tokens(query.authors) = <<>>

\* the messages of the runs of identify that end before the Workers are built
PreSpawnMessages ==
    {"Insufficient metadata to construct query", "Failed to make identify query",
     "Failed to get raw result for query", "Failed to parse goodreads page for query",
     "No matches found with query"}

\* C9: a run that fails before the Workers are built starts no Worker, puts
\* nothing in the sink and returns without raising: without usable query
\* tokens no fetch is issued at all; so it is when the search fetch fails,
\* when the search page is empty or unparseable, and when the search finds
\* nothing for a query without identifiers.
C9_PreSpawnFailure ==
    /\ NoUsableTokens =>
        /\ search_fetches = 0
        /\ workers = <<>> /\ result_queue = <<>>
        /\ pc # "raised"
    /\ id_log \cap PreSpawnMessages # {} =>
        /\ pc = "returned"
        /\ workers = <<>> /\ result_queue = <<>>

(***************************************************************************)
(* The supervision loop, checked under SuperviseSpec.                      *)
(***************************************************************************)
AllFinished == \A w \in Ws : w.pc = "done"

\* C10: identify does not return, abort unset, before every Worker it
\* started has ended, so that their records are all in the sink at the
\* return; it returns once they all have ended, and once abort is set;
\* returning, it leaves the Workers as they are, and they may publish later.
C10_SupervisionLoop ==
    /\ []((pc = "returned" /\ ~abort) =>
            /\ AllFinished
            /\ queue_at_return = Len(result_queue)
            /\ \A w \in Ws : Cardinality(RecordsOf(w)) = w.puts)
    /\ [][(pc # "returned" /\ pc' = "returned") =>
            /\ workers' = workers
            /\ (Supervising => (abort \/ AllFinished))]_vars
    /\ (Supervising /\ AllFinished) ~> (pc = "returned")
    /\ (Supervising /\ abort) ~> (pc = "returned")

\* abort was set, identify returned while its Worker ran, and the Worker
\* published afterwards
C10_Witness ==
    /\ pc = "returned" /\ abort
    /\ Len(workers) = 1 /\ workers[1].pc = "done" /\ workers[1].puts = 1
    /\ queue_at_return = 0 /\ Len(result_queue) = 1

(***************************************************************************)
(* Properties of download_cover and of the abort flag, checked under       *)
(* CoverSpec.                                                              *)
(***************************************************************************)
\* the Workers whose start() has been called
Started(ws) == {i \in 1..Len(ws) : ws[i].pc # "created"}

\* a step that starts a Worker, re-runs identify or requests a cover
StartsWork ==
    \/ Started(workers') # Started(workers)
    \/ (pc = "check" /\ pc' = "entry")
    \/ dc'.cover_fetches # dc.cover_fetches

\* C11 as the specification states it: with abort set no step starts a
\* Worker, re-runs identify or requests a cover
C11_AsStated == [][abort => ~StartsWork]_vars

\* C11: identify, finding abort set at its check after the candidate URLs
\* are derived, returns without building a Worker and without the re-run;
\* download_cover, finding abort set at either of its checks, returns
\* without requesting a cover.  (A Worker built before abort was set is
\* still started, a cover request decided before is still issued.)
C11_AbortObserved ==
    [][/\ (abort /\ pc = "check" /\ pc' # pc) =>
            /\ pc' = "returned"
            /\ workers' = <<>>
            /\ calls' = calls /\ identifiers' = identifiers
       /\ (abort /\ dc.pc \in {"identify", "found"} /\ dc'.pc # dc.pc) =>
            /\ dc'.pc \in {"returned", "raised"}
            /\ dc'.cover_fetches = dc.cover_fetches
            /\ dc'.sink = dc.sink
       /\ (pc = "returned" /\ workers = <<>>) => workers' = <<>>
       /\ dc.pc = "returned" => dc' = dc]_vars

\* abort was found set with a candidate URL at hand: no Worker, no cover
C11_Witness ==
    /\ abort /\ pc = "returned" /\ matches # <<>> /\ workers = <<>>
    /\ dc.pc = "returned" /\ dc.cover_fetches = 0 /\ dc.sink = <<>>

(***************************************************************************)
(* Order of the side effects of a Worker, checked under WorkerSpec.        *)
(***************************************************************************)
\* C12: at the step that puts the record, the ISBN-to-identifier entry (if
\* an ISBN was extracted) and the identifier-to-cover-URL entry (if a cover
\* URL was accepted) are already in the caches and the cleanup hook has
\* already run on the record; after the put neither the record of the
\* Worker nor what the sink holds changes.
C12_SideEffectsBeforePut ==
    [][\A i \in 1..Min({Len(workers), Len(workers')}) :
        LET w == workers[i]
        IN  /\ workers'[i].puts > w.puts =>
                /\ w.mi # NoneVal /\ w.mi[1].cleaned
                /\ w.isbn # NoneVal =>
                     /\ "isbn" \in w.cached
                     /\ Get(isbn_cache, w.isbn[1]) = w.ridibooks_id
                /\ w.cover_url # NoneVal =>
                     /\ "cover" \in w.cached
                     /\ Get(cover_cache, w.ridibooks_id[1]) = w.cover_url
                /\ result_queue' = Append(result_queue, w.mi[1])
                /\ workers'[i].mi = w.mi
            /\ w.puts >= 1 =>
                /\ workers'[i].mi = w.mi
                /\ workers'[i].puts = w.puts
                /\ Len(result_queue') >= Len(result_queue)
                /\ SubSeq(result_queue', 1, Len(result_queue)) = result_queue]_vars

C12_Witness ==
    \E w \in Ws :
        /\ w.pc = "done" /\ w.puts = 1 /\ w.cached = {"isbn", "cover"}
        /\ Get(isbn_cache, w.isbn[1]) = w.ridibooks_id
        /\ Get(cover_cache, w.ridibooks_id[1]) = w.cover_url
        /\ result_queue = <<w.mi[1]>> /\ w.mi[1].cleaned

(***************************************************************************)
(* The cover probe, checked under WorkerSpec.                              *)
(***************************************************************************)
\* the Content-Length the probe of the cover reports, None when the probe
\* fails or reports no number
ProbedLength(r) ==
    IF r.probe.ok /\ r.probe.val # NoneVal /\ int(r.probe.val[1]).ok
    THEN Some(int(r.probe.val[1]).val) ELSE NoneVal

\* the page names a cover and the probe fails or reports at most 1000 bytes
CoverNotAcceptable(r) ==
    /\ r.og_image # <<>>
    /\ (ProbedLength(r) = NoneVal \/ ProbedLength(r)[1] <= CoverMinLength)

\* C13: a cover whose probe reports at most 1000 bytes, or whose probe
\* fails, is not accepted: the cover URL of the Worker stays None, has_cover
\* is false on the record, no identifier-to-cover-URL entry is written, and
\* the record is published all the same.
C13_SmallCoverRejected ==
    \A w \in Ws :
        (Parsed(w) /\ ~w.root[1].errmsg /\ MandatoryExtracted(w)
         /\ CoverNotAcceptable(w.root[1])) =>
            /\ w.cover_url = NoneVal
            /\ w.mi # NoneVal /\ ~w.mi[1].has_cover
            /\ "cover" \notin w.cached
            /\ DOMAIN cover_cache = {}
            /\ (w.pc = "done" /\ ~w.hook_raised) =>
                /\ w.puts = 1
                /\ Len(result_queue) = 1 /\ ~result_queue[1].has_cover

\* a cover of exactly 1000 bytes: record published without it
C13_Witness ==
    \E w \in Ws :
        /\ w.pc = "done" /\ w.puts = 1 /\ w.root # NoneVal
        /\ w.root[1].og_image # <<>>
        /\ ProbedLength(w.root[1]) = Some(CoverMinLength)
        /\ w.cover_url = NoneVal /\ DOMAIN cover_cache = {}
        /\ Len(result_queue) = 1 /\ ~result_queue[1].has_cover

(***************************************************************************)
(* The cover-only flow, checked under CoverSpec.                           *)
(***************************************************************************)
\* the cover URL the caches resolve for the identifiers ids: by the external
\* identifier, or, when ids has none, by the ISBN and the identifier cached
\* for it; <<>> when they resolve none
Resolved(ids) ==
    IF "ridibooks" \in DOMAIN ids
    THEN (IF ids.ridibooks \in DOMAIN cover_cache
          THEN <<cover_cache[ids.ridibooks]>> ELSE <<>>)
    ELSE IF "isbn" \in DOMAIN ids /\ ids.isbn \in DOMAIN isbn_cache
            /\ isbn_cache[ids.isbn] \in DOMAIN cover_cache
         THEN <<cover_cache[isbn_cache[ids.isbn]]>> ELSE <<>>

\* identify has not been invoked: nothing of a resolution has happened
NoResolution ==
    /\ pc = "idle" /\ calls = 0
    /\ search_fetches = 0 /\ matches = <<>>
    /\ workers = <<>> /\ result_queue = <<>>

Published == {w.mi[1] : w \in {v \in Ws : v.puts = 1}}

\* url is the cover URL of the first published record, in the order of the
\* ranking key, whose identifiers resolve to a cached cover URL; None when
\* no published record resolves
FirstResolving(url) ==
    IF \A mi \in Published : Resolved(mi_identifiers(mi)) = <<>>
    THEN url = NoneVal
    ELSE \E mi \in Published :
            /\ Resolved(mi_identifiers(mi)) = url /\ url # <<>>
            /\ \A other \in Published :
                KeyLess(keygen(other, query.identifiers),
                        keygen(mi, query.identifiers))
                    => Resolved(mi_identifiers(other)) = <<>>

\* the sink of the caller holds at most one item, the blob of the cover
\* that was requested, and never a record
SinkHoldsCoverOnly ==
    /\ Len(dc.sink) <= 1
    /\ dc.cover_fetches <= 1
    /\ Len(dc.sink) <= dc.cover_fetches
    /\ \A k \in 1..Len(dc.sink) :
        dc.cached_url # NoneVal /\ dc.sink[k] = CoverBlob(dc.cached_url[1])
    /\ "No cover found" \in dc.log => dc.sink = <<>> /\ dc.cover_fetches = 0
    /\ "Failed to download cover from:" \in dc.log => dc.sink = <<>>
    /\ dc.pc = "raised" => dc.sink = <<>> /\ dc.cover_fetches = 0

\* on a miss the records of identify stay in the private queue, and the URL
\* chosen is that of the first of them that resolves
MissChoosesFirstResolving ==
    (calls >= 1 /\ dc.pc \in {"found", "fetch"}) =>
        /\ pc = "returned"
        /\ result_queue = <<>>
        /\ \A w \in Ws : w.pc = "done"
        /\ FirstResolving(dc.cached_url)

\* the steps of download_cover after identify is back
MissSteps ==
    /\ (dc.pc = "identify" /\ dc'.pc # dc.pc) =>
        /\ dc'.sink = dc.sink /\ dc'.cover_fetches = dc.cover_fetches
        /\ dc'.pc = (IF pc = "raised" THEN "raised"
                     ELSE IF abort THEN "returned" ELSE "found")
    /\ (dc.pc = "found" /\ dc'.pc # dc.pc) =>
        /\ dc'.sink = dc.sink /\ dc'.cover_fetches = dc.cover_fetches
        /\ dc'.pc = (IF dc.cached_url = NoneVal \/ abort THEN "returned" ELSE "fetch")
    /\ (dc.pc = "fetch" /\ dc'.pc # dc.pc) =>
        /\ dc'.cover_fetches = dc.cover_fetches + 1
        /\ \/ dc'.sink = Append(dc.sink, CoverBlob(dc.cached_url[1]))
           \/ dc'.sink = dc.sink /\ "Failed to download cover from:" \in dc'.log
    /\ dc.pc \in {"returned", "raised"} => dc' = dc

\* C15: on a cache miss download_cover runs identify into a private queue
\* and requests the cover of the first record, in the order of the ranking
\* key, whose identifiers resolve to a cached cover URL; the sink of the
\* caller receives at most one item, a cover blob and never a record, and
\* nothing when no record resolves, when abort is found set at the check
\* after identify or at the check before the request, when the request
\* fails, or when identify raises.
C15_CoverOfFirstResolving ==
    /\ []SinkHoldsCoverOnly
    /\ []MissChoosesFirstResolving
    /\ [][MissSteps]_vars

\* C15 as the specification states it: with abort set the sink receives
\* nothing
C15_AsStated ==
    /\ []SinkHoldsCoverOnly
    /\ []MissChoosesFirstResolving
    /\ [][(calls >= 1 /\ abort) => dc'.sink = dc.sink]_vars

\* a miss, a record published by the Worker of identify, and its cover in
\* the sink of the caller
C15_Witness ==
    /\ calls >= 1 /\ ~abort /\ dc.pc = "returned"
    /\ Cardinality(Published) = 1
    /\ \E mi \in Published : dc.sink = <<CoverBlob(Resolved(mi_identifiers(mi))[1])>>
    /\ result_queue = <<>>

\* a miss and no record that resolves: nothing in the sink
C15_WitnessNone ==
    /\ calls >= 1 /\ ~abort /\ dc.pc = "returned"
    /\ "No cover found" \in dc.log /\ dc.sink = <<>>

(***************************************************************************)
(* The Matcher, checked under Spec.                                        *)
(***************************************************************************)
\* the entries of the search page identify has parsed
SearchEntries == search_root[1]

\* every entry has the title node and the author node the Matcher reads
EntriesScorable ==
    \A i \in 1..Len(SearchEntries) :
        SearchEntries[i].title_text # <<>> /\ SearchEntries[i].author # <<>>

\* title_similarity * author_similarity of entry i against the query
Score(i) ==
    similarity(SearchEntries[i], get_title_tokens(query.title, TRUE),
               get_author_tokens(query.authors))

\* entry i has a maximal score and every entry before it a smaller one
FirstMaximal(i) ==
    /\ \A j \in 1..Len(SearchEntries) : ~Greater(Score(j), Score(i))
    /\ \A j \in 1..(i - 1) : Greater(Score(i), Score(j))

\* C16: from a non-empty sequence of search-result entries (each with the
\* title and the author node that are scored) the Matcher selects the first
\* entry, in input order, whose score title_similarity * author_similarity
\* is maximal, also when every score is 0; the candidate URL it adds is
\* built from the link of that entry.  From an empty sequence it selects
\* nothing and adds no candidate URL.
C16_FirstMaximalSelected ==
    (search_root # NoneVal /\ pc \in {"check", "raised"}) =>
        IF SearchEntries = <<>>
        THEN pc = "check" /\ matches = <<>>
        ELSE EntriesScorable =>
            \E sel \in 1..Len(SearchEntries) :
                /\ FirstMaximal(sel)
                /\ LET link == SearchEntries[sel].title_link
                   IN  IF link = <<>> THEN pc = "raised" /\ matches = <<>>
                       ELSE /\ pc = "check"
                            /\ matches = (IF link[1] # <<>>
                                          THEN << <<BASE_URL>> \o link[1] >>
                                          ELSE <<>>)

\* two entries of maximal score, with different links: the first is taken
C16_Witness ==
    /\ search_root # NoneVal /\ pc = "check"
    /\ Len(SearchEntries) = 2 /\ EntriesScorable
    /\ Score(1)[1] > 0
    /\ ~Greater(Score(1), Score(2)) /\ ~Greater(Score(2), Score(1))
    /\ SearchEntries[1].title_link # SearchEntries[2].title_link
    /\ matches = << <<BASE_URL>> \o SearchEntries[1].title_link[1] >>

\* every entry scores 0: the first is taken
C16_WitnessZero ==
    /\ search_root # NoneVal /\ pc = "check"
    /\ Len(SearchEntries) = 2 /\ EntriesScorable
    /\ Score(1)[1] = 0 /\ Score(2)[1] = 0
    /\ SearchEntries[1].title_link # SearchEntries[2].title_link
    /\ matches = << <<BASE_URL>> \o SearchEntries[1].title_link[1] >>

\* no entry: no candidate URL
C16_WitnessEmpty ==
    /\ search_root = Some(<<>>) /\ pc = "check" /\ matches = <<>>

(***************************************************************************)
(* The extraction of title, authors and ISBN, checked under ParserSpec.    *)
(***************************************************************************)
\* the Workers that have built a record from a page with a title
WithRecord == {w \in Ws : w.mi # NoneVal /\ w.root[1].og_title # <<>>}

\* the display title of the page of Worker w
DisplayTitle(w) == Strip(w.root[1].og_title[1])

\* the text after the last '(' of t
AfterLastParen(t) == SubSeq(t, RFind(t, "(") + 1, Len(t))

\* the positions of a '(' of t from which the text up to the end of t, the
\* last dropped characters of t aside, has as many '(' as ')'
GroupStarts(t, dropped) ==
    {p \in 1..Len(t) :
        /\ t[p] = "("
        /\ Count(SubSeq(t, p + 1, Len(t) - dropped), "(")
           = Count(SubSeq(t, p + 1, Len(t) - dropped), ")")}

\* the split of t at the series group that starts after position p and
\* ends before the last dropped characters of t: the text before the group,
\* the text before the last '#' of the group without its trailing comma,
\* the number after that '#', the leading number when it is a range; the
\* whole of t when that is no number
SplitAt(t, p, dropped) ==
    LET group == SubSeq(t, p + 1, Len(t) - dropped)
        hash == RFind(group, "#")
        name == Strip(SubSeq(group, 1, hash - 1))
        index == Strip(SubSeq(group, hash + 1, Len(group)))
        dash == Find(index, "-")
        leading == IF dash > 1 THEN Strip(SubSeq(index, 1, dash - 1)) ELSE index
    IN  IF float(leading).ok
        THEN <<Strip(SubSeq(t, 1, p - 1)),
               Some(IF name # <<>> /\ name[Len(name)] = ","
                    THEN SubSeq(name, 1, Len(name) - 1) ELSE name),
               Some(float(leading).val)>>
        ELSE <<t, NoneVal, NoneVal>>

\* the record of Worker w has title, series and index of split; a series
\* without a name is not set on the record
RecordHas(w, split) ==
    /\ w.mi[1].title = split[1]
    /\ IF Truthy(split[2])
       THEN w.mi[1].series = split[2] /\ w.mi[1].series_index = split[3]
       ELSE w.mi[1].series = NoneVal /\ w.mi[1].series_index = NoneVal

\* the display titles named as examples
Examples ==
    (<<<<"x", " ", "(", "y", " ", "#", "3", ")">>>> :> <<<<"x">>, Some(<<"y">>), Some(<<3, 0>>)>>)
    @@ (<<<<"x", " ", "(", "y", " ", "#", "1", "-", "5", ")">>>> :> <<<<"x">>, Some(<<"y">>), Some(<<1, 0>>)>>)
    @@ (<<<<"x", " ", "(", "o", ")">>>> :> <<<<"x", " ", "(", "o", ")">>, NoneVal, NoneVal>>)
    @@ (<<<<"x", " ", "(", "o", ")", " ", "(", "y", " ", "#", "1", ")">>>> :> <<<<"x", " ", "(", "o", ")">>, Some(<<"y">>), Some(<<1, 0>>)>>)

C17_WitnessLeadingHash ==
    \E w \in WithRecord :
        /\ w.pc = "done" /\ w.puts = 1
        /\ Find(AfterLastParen(DisplayTitle(w)), "#") = 1
        /\ w.mi[1].title = DisplayTitle(w) /\ w.mi[1].series = NoneVal

\* the example with two groups: the title keeps the first of them
C17_WitnessExample ==
    \E w \in WithRecord :
        /\ w.pc = "done" /\ w.puts = 1
        /\ <<DisplayTitle(w)>> \in DOMAIN Examples
        /\ Count(DisplayTitle(w), "(") = 2
        /\ w.mi[1].title = <<"x", " ", "(", "o", ")">>
        /\ w.mi[1].series = Some(<<"y">>) /\ w.mi[1].series_index = Some(<<1, 0>>)

\* the names and the cleaned role labels of the page of Worker w
Names(w) == w.root[1].writer[1].names
Labels(w) ==
    [i \in 1..Len(w.root[1].writer[1].roles) |->
        RemoveCommas(Strip(w.root[1].writer[1].roles[i]))]

\* the index, counted from 0, of the first label that is role
LabelIndex(w, role) ==
    Min({i \in 1..Len(Labels(w)) : Labels(w)[i] = <<role>>}) - 1

\* the page of Worker w has an author label at index k and a translator
\* label at index m with k < m, m being a position of the author list
TranslatorsLabelled(w) ==
    /\ Parsed(w) /\ ~w.root[1].errmsg /\ w.root[1].writer # <<>>
    /\ \E i \in 1..Len(Labels(w)) : Labels(w)[i] = <<RoleAuthor>>
    /\ \E i \in 1..Len(Labels(w)) : Labels(w)[i] = <<RoleTranslator>>
    /\ LabelIndex(w, RoleAuthor) < LabelIndex(w, RoleTranslator)
    /\ LabelIndex(w, RoleTranslator) < Len(Names(w))

\* the list parse_authors returns for the page of Worker w
Returned(w) == parse_authors(w.root[1], prefs.get_all_authors)

\* C18: with the author label at index k and the translator label at index
\* m, k < m, parse_authors returns a list in which every entry at a
\* position in (k, m] is the name with the translator suffix appended once
\* and every entry at a position <= k is the name unchanged; with the flag
\* on it is the whole list, which the record then carries.
C18_TranslatorsMarked ==
    \A w \in Ws :
        TranslatorsLabelled(w) =>
            LET k == LabelIndex(w, RoleAuthor)
                m == LabelIndex(w, RoleTranslator)
            IN  /\ Returned(w).ok /\ Returned(w).val # NoneVal
                /\ LET authors == Returned(w).val[1]
                   IN  /\ prefs.get_all_authors => Len(authors) = Len(Names(w))
                       /\ Len(authors) <= Len(Names(w))
                       /\ \A i \in 0..(Len(authors) - 1) :
                            authors[i + 1] =
                                IF k < i /\ i <= m
                                THEN Names(w)[i + 1] \o <<TranslatorMark>>
                                ELSE Names(w)[i + 1]
                       /\ (w.mi # NoneVal) => w.mi[1].authors = authors

\* two translators marked between an author and a name after the
\* translator label, on the record published
C18_Witness ==
    \E w \in Ws :
        /\ TranslatorsLabelled(w) /\ prefs.get_all_authors
        /\ LabelIndex(w, RoleAuthor) = 0 /\ LabelIndex(w, RoleTranslator) = 2
        /\ w.pc = "done" /\ w.puts = 1
        /\ Len(result_queue) = 1
        /\ result_queue[1].authors =
            << <<"p">>, <<"q", TranslatorMark>>, <<"t", TranslatorMark>>, <<"u">> >>

\* the names of the page of Worker w at the positions 0..k
PrimarySegment(w) == SubSeq(Names(w), 1, LabelIndex(w, RoleAuthor) + 1)

\* C19: the flag selects the list parse_authors returns: with the flag on
\* the whole list with the translators marked, with the flag off the
\* primary-author segment, the unmarked entries at the positions <= k (k
\* the index of the author label), which is not empty when the page lists a
\* primary author.
C19_FlagSelectsAuthors ==
    \A w \in Ws :
        TranslatorsLabelled(w) =>
            /\ Returned(w).ok /\ Returned(w).val # NoneVal
            /\ IF prefs.get_all_authors
               THEN Len(Returned(w).val[1]) = Len(Names(w))
               ELSE /\ Returned(w).val[1] = PrimarySegment(w)
                    /\ Returned(w).val[1] # <<>>

\* the positions of the values of the ISBN field of the page of Worker w
\* that hold a run of IsbnMinLen or more characters of an ISBN
MatchingIsbns(w) ==
    {i \in 1..Len(w.root[1].isbn) : SearchIsbn(Strip(w.root[1].isbn[i])) # NoneVal}

\* C20: when the ISBN field of the page holds several values, the ISBN of
\* the record is the match in the first value, in document order, that has
\* one; a later matching value does not override it.
C20_FirstIsbnWins ==
    \A w \in Ws :
        (w.mi # NoneVal /\ MatchingIsbns(w) # {}) =>
            w.mi[1].isbn = SearchIsbn(Strip(w.root[1].isbn[Min(MatchingIsbns(w))]))

(***************************************************************************)
(* The number of candidates, Workers and records of one call of identify,  *)
(* checked under Spec.                                                     *)
(***************************************************************************)
RECURSIVE SumPuts(_)
SumPuts(ws) == IF ws = <<>> THEN 0 ELSE Head(ws).puts + SumPuts(Tail(ws))

\* C21: whatever the number of entries of the search page, identify has at
\* most one candidate URL; a call of identify, its re-run included, builds
\* and starts at most one Worker, never more than MAX_EDITIONS, and at most
\* one record reaches the result sink.
C21_AtMostOneCandidate ==
    /\ Len(matches) <= 1
    /\ Len(workers) <= 1
    /\ Len(workers) <= Len(matches)
    /\ Len(workers) <= MAX_EDITIONS
    /\ Cardinality(Started(workers)) <= 1
    /\ SumPuts(workers) <= 1
    /\ Len(result_queue) <= 1
    /\ calls <= 2

\* a search page of MaxResults entries that all match has given one URL
C21_Witness ==
    /\ search_root # NoneVal /\ pc = "check"
    /\ Len(SearchEntries) = MaxResults /\ EntriesScorable
    /\ \A i \in 1..Len(SearchEntries) :
        /\ Score(i)[1] > 0
        /\ Len(SearchEntries[i].title_link) = 1
        /\ Len(SearchEntries[i].title_link[1]) > 0
    /\ Len(matches) = 1

\* the re-run found a candidate: one Worker, one record
C21_WitnessRetry ==
    /\ calls = 2 /\ pc = "returned" /\ ~abort
    /\ Len(workers) = 1 /\ workers[1].pc = "done"
    /\ Len(result_queue) = 1

(***************************************************************************)
(* The re-balancing loop of parse_title_series, checked under TitleSpec.   *)
(***************************************************************************)
\* the loop was entered on this title
LoopEntered ==
    LET title_text == Strip(title_call.content)
    IN  /\ Find(title_text, "(") > 0
        /\ Find(AfterLastParen(title_text), "#") > 1

Balanced(text) == Count(text, "(") = Count(text, ")")

\* C22: on every display title the re-balancing loop of parse_title_series
\* comes to its end, after no more passes than the title has characters,
\* also with surplus ')' and with no '(' left before the series group; at
\* its end series_info has as many '(' as ')', and title and series_info
\* are what parse_title_series goes on with.
C22_RebalanceTerminates ==
    /\ <>(title_call.pc = "done")
    /\ [](title_call.passes <= Len(title_call.content))
    /\ [](title_call.pc = "done" => Balanced(title_call.series_info))
    /\ []((title_call.pc = "done" /\ LoopEntered) =>
            LET title_text == Strip(title_call.content)
                text_split == rpartition(title_text, "(")
            IN  <<title_call.title, title_call.series_info>> =
                    Rebalance(text_split[1],
                              SubSeq(text_split[3], 1, Len(text_split[3]) - 1)))

\* two surplus ')' and nothing before the group: two passes, each with no
\* '(' left in the title
C22_Witness ==
    /\ title_call.pc = "done" /\ LoopEntered
    /\ RFind(Strip(title_call.content), "(") = 1
    /\ title_call.passes = 2
    /\ title_call.title = <<>>
    /\ Count(title_call.series_info, ")") = 2

(***************************************************************************)
(* Pages without a role label, checked under ParserSpec.                   *)
(***************************************************************************)
HasLabel(w, role) == \E i \in 1..Len(Labels(w)) : Labels(w)[i] = <<role>>

\* the page of Worker w was parsed, has names or text in its writer node,
\* and lacks the author label or the translator label
LabelMissing(w) ==
    /\ Parsed(w) /\ ~w.root[1].errmsg /\ w.root[1].writer # <<>>
    /\ (Names(w) # <<>> \/ Labels(w) # <<>>)
    /\ (~HasLabel(w, RoleAuthor) \/ ~HasLabel(w, RoleTranslator))

\* C23: when the role labels of the page lack the author label or the
\* translator label, parse_authors raises, parse_details takes the author
\* list as empty and, authors being mandatory, the Worker ends without a
\* record, without a put and without a write to a cache.
C23_MissingLabelRejects ==
    \A w \in Ws :
        LabelMissing(w) =>
            /\ ~Returned(w).ok
            /\ w.pc = "done"
            /\ w.mi = NoneVal
            /\ w.puts = 0
            /\ RecordsOf(w) = {}
            /\ w.cached = {}
            /\ "Error parsing authors" \in w.log
            /\ "Could not find title/authors/ridibooks id" \in w.log

\* a book with authors and no translator, title and identifier at hand
C23_Witness ==
    \E w \in Ws :
        /\ LabelMissing(w)
        /\ HasLabel(w, RoleAuthor) /\ Len(Names(w)) = 2
        /\ TitleExtracted(w) /\ IdentifierExtracted(w)
        /\ w.pc = "done" /\ w.puts = 0 /\ result_queue = <<>>
        /\ pc = "returned" /\ ~abort

====
